---- MODULE Spec2Model ----
(***************************************************************************)
(* A model of the Calcifer plugin core (Anyesh/obsidian-calcifer):         *)
(*   - the indexing orchestrator, src/src/embedding/EmbeddingManager.ts    *)
(*   - the provider gateway,      src/src/providers/ProviderManager.ts     *)
(*   - the tool protocol,         src/src/tools/ToolManager.ts,            *)
(*                                src/src/tools/ToolExecutor.ts            *)
(*   - one document's re-index,   indexSingleFile and the vector store,    *)
(*                                src/unnamed/part_009                     *)
(* The host is a single-threaded event loop: every action below is the     *)
(* synchronous code between two awaits of one handler.                     *)
(***************************************************************************)
EXTENDS Integers, Sequences, FiniteSets, TLC

(***************************************************************************)
(* Bounds of the model and program constants.                              *)
(***************************************************************************)
MaxRuns == 2                \* activations of indexVault/processIndexQueue alive at once
NumFiles == 2               \* markdown files of the vault
MaxBatches == 1             \* embedding sub-batches of one document
NumEndpoints == 2           \* providers answering a health check
NumProviders == 3           \* entries of settings.endpoints
MaxCalls == 2               \* tool calls parsed from one response
MaxSingle == 2              \* activations of indexSingleFile for one path alive at once
MaxChunks == 2              \* chunks of one version of the document
MaxVersions == 3            \* versions of the document
MaxParsed == 11
MaxRpm == 2                 \* settings.rateLimitRpm
MaxBuckets == 3             \* RateLimiter objects constructed
MaxDocs == 3                \* records of the store in a search
MaxTopK == 3                \* topK of a search
MaxSegments == 3            \* fences and inline objects of one response
MaxPieces == 3              \* pieces of a response on its way to the display
NumCallers == 2             \* concurrent callers of RateLimiter.acquire
MaxElapsed == 4             \* seconds followed after the last refill
MaxText == 5                \* characters of a text given to the chunker
MaxChunkSize == 3           \* chunkSize of the chunker
MaxMinChunk == 2            \* minChunkSize of the chunker
MaxEvents == 3              \* events of one stream before its end
MaxSink == 3                \* chunks the sink has received before a line is read
NumSources == 3             \* documents the vector store can return as context
MaxMemories == 2            \* settings.maxMemories
MaxStamp == 5               \* readings of Date.now() by the memory manager
MaxMtime == 2               \* modification times, in milliseconds since the epoch
MaxStored == 2              \* records of the store read by the incremental filter
MaxPath == 9                \* characters of a path handed to the host by rename_note and move_note
maxToolCallsPerResponse == 10 \* DEFAULT_CONFIG.maxToolCallsPerResponse
maxConsecutiveErrors == 3   \* EmbeddingManager.maxConsecutiveErrors

VARIABLES
  \* ---- EmbeddingManager fields
  isIndexing,         \* this.isIndexing
  circuitBroken,      \* this.circuitBroken
  consecutiveErrors,  \* this.consecutiveErrors
  indexQueue,         \* this.indexQueue, a Set iterated in insertion order
  progress,           \* this.progress is an object (TRUE) or null (FALSE)
  timerPending,       \* a timer of the debounced processQueue is armed
  runs,               \* the suspended activations of indexVault / processIndexQueue
  store,              \* the vector store: path -> 1 when records of the path are stored
  tripped,            \* observation: the breaker was opened by failures and not reset since
  \* ---- ProviderManager
  endpoints,          \* settings.endpoints: id -> [enabled, priority], ids in array order
  providers,          \* the ids of this.providers
  providerStatus,     \* this.providerStatus: id -> "none" | "healthy" | "unhealthy"
  call,               \* the failover call in flight
  \* ---- ToolManager / ToolExecutor
  vault,              \* the vault: a set of [path, type] entries, type "file" | "folder"
  config,             \* ToolManager.config: [enabled, requireConfirmation]
  pr,                 \* the processResponse activation
  \* ---- indexSingleFile on one path
  records,            \* the store's records of the path: chunk index -> record or NoRecord
  single,             \* the activations of indexSingleFile for the path
  nextVersion,        \* the version of the document the next activation reads
  modal,              \* the confirmation modal of requestConfirmation and its promise
  content,            \* the vault: path -> number of embedding sub-batches of the document
  rerun,              \* observation: how the indexVault runs went
  pathRecords,        \* the vector store by path: the chunk indexes stored under it
  upd,                \* the activation of updatePath
  writer,             \* an indexing write: deleteByPath, then upsertBatch
  limiter,            \* this.rateLimiter: the bucket in use and its tokens
  embedCalls,         \* the embedding call sites
  srch,               \* one call of VectorStore.search
  req,                \* one outbound call of a provider
  listing,            \* the activation of ProviderManager.listModels
  parse,              \* one call of parseToolCalls
  part                \* the subsystem a later section follows: its whole state

idxVars == <<isIndexing, circuitBroken, consecutiveErrors, indexQueue, progress,
             timerPending, runs, store, tripped>>

gwVars == <<endpoints, providers, providerStatus, call>>

toolVars == <<vault, config, pr>>

docVars == <<records, single, nextVersion>>

uiVars == <<modal>>

rerunVars == <<content, rerun>>

renVars == <<pathRecords, upd, writer>>

rateVars == <<limiter, embedCalls>>

srchVars == <<srch>>

reqVars == <<req>>

listVars == <<listing>>

parseVars == <<parse>>

\* ---- the subsystems of the later sections share one variable
ext2Vars == <<part>>

ext1Vars == <<uiVars, rerunVars, renVars, rateVars, srchVars, reqVars, listVars, parseVars>>

\* every earlier subsystem
base == <<idxVars, gwVars, toolVars, docVars, ext1Vars>>

\* what part holds in the section that follows it
disp == part

texts == part.texts

last == part.last

bucket == part.bucket

callers == part.callers

chunker == part

stream == part

rag == part

memories == part.memories

now == part.now

eviction == part.eviction

iq == part

stored == part.stored

deleted == part.deleted

deleter == part.deleter

indexer == part.indexer


extVars == <<ext1Vars, ext2Vars>>

\* every later subsystem but one
notUi == <<rerunVars, renVars, rateVars, srchVars, reqVars, listVars, parseVars, ext2Vars>>

notRerun == <<uiVars, renVars, rateVars, srchVars, reqVars, listVars, parseVars, ext2Vars>>

notRen == <<uiVars, rerunVars, rateVars, srchVars, reqVars, listVars, parseVars, ext2Vars>>

notRate == <<uiVars, rerunVars, renVars, srchVars, reqVars, listVars, parseVars, ext2Vars>>

notSrch == <<uiVars, rerunVars, renVars, rateVars, reqVars, listVars, parseVars, ext2Vars>>

notReq == <<uiVars, rerunVars, renVars, rateVars, srchVars, listVars, parseVars, ext2Vars>>

notList == <<uiVars, rerunVars, renVars, rateVars, srchVars, reqVars, parseVars, ext2Vars>>

notParse == <<uiVars, rerunVars, renVars, rateVars, srchVars, reqVars, listVars, ext2Vars>>

vars == <<idxVars, gwVars, toolVars, docVars, extVars>>

Runs == 1..MaxRuns
Files == 1..NumFiles
EndpointIds == 1..NumProviders

\* One failover call of ProviderManager: the providers read at its start, the
\* ids attempted so far, and how it ended.
NoCall == [phase |-> "idle", list |-> <<>>, attempts |-> <<>>,
           outcome |-> "none", response |-> 0, lastError |-> 0, disturbed |-> FALSE]

\* One record of the vector store, and one activation of indexSingleFile: the
\* version it read, its chunk count, its batch size, the start i of the batch
\* it is at, the ids getByPath returned, and the documents collected so far.
NoRecord == [version |-> 0, embedding |-> <<>>]
ChunkIndexes == 0..(MaxChunks - 1)
Singles == 1..MaxSingle
NoSingle == [pc |-> "idle", version |-> 0, n |-> 0, batchSize |-> 1, i |-> 0,
             found |-> {}, documents |-> <<>>]

\* no confirmation modal; value is the state of the promise of
\* requestConfirmation, calls the number of times one of its callbacks ran
NoModal == [state |-> "none", resolved |-> FALSE, calls |-> 0, value |-> "pending",
            event |-> "none"]

\* the two paths of a renamed document
Paths == {"old", "new"}

\* the embedding call sites: indexSingleFile and the retrieval lookups
Sites == {"index", "retrieve", "similar"}

NoRerun == [forced |-> FALSE, failed |-> FALSE, full |-> FALSE]

NoUpdate == [pc |-> "idle", docs |-> {}, behind |-> FALSE]

NoWriter == [pc |-> "idle", path |-> "old", found |-> {}, documents |-> {},
             behind |-> FALSE]

NoLimiter == [gen |-> 1, rpm |-> 1, tokens |-> 1]

NoEmbedCall == [pc |-> "idle", acquired |-> 0]

NoSearch == [pc |-> "idle", docs |-> <<>>, queryEmbedding |-> <<0, 0>>, topK |-> 0,
             threw |-> FALSE, results |-> <<>>]

NoRequest == [pc |-> "idle", provider |-> "ollama", operation |-> "chat",
              useNativeFetch |-> FALSE, timeoutMs |-> <<>>, cause |-> "none",
              code |-> "none"]

NoListing == [pc |-> "idle", list |-> <<>>, i |-> 0, outcome |-> "none"]

\* the notes whose content the model follows
NotePaths == {<<"n", "/", "a", ".", "m", "d">>, <<"d", "/", "a", ".", "m", "d">>}

NoToolCall == [tool |-> "none", path |-> <<>>, force |-> FALSE, overwrite |-> FALSE,
               success |-> FALSE, message |-> "none"]

NoBucket == [rpm |-> 0, tokens |-> 0, elapsed |-> 0]

NoCaller == [pc |-> "idle", remaining |-> 0, waited |-> 0]

NoChunker == [pc |-> "idle", text |-> <<>>, chunkSize |-> 1, overlap |-> 0, minChunkSize |-> 0,
              startPos |-> 0, lastStartPos |-> -1, endPos |-> 0, chunks |-> <<>>]

NoStream == [pc |-> "idle", provider |-> "none", events |-> <<>>]

NoRag == [pc |-> "idle", enableMemory |-> FALSE, enableToolCalling |-> FALSE,
          embedFailed |-> FALSE, context |-> {}, answer |-> "none", error |-> "none",
          contextSources |-> {}, processed |-> FALSE, extraction |-> "none"]

NoMemory == [content |-> "none", lastAccessedAt |-> 0, accessCount |-> 0]

NoQueue == [indexQueue |-> {}, isIndexing |-> FALSE, circuitBroken |-> FALSE,
            consecutiveErrors |-> 0, timerPending |-> FALSE, vaultRun |-> FALSE,
            queueRun |-> FALSE, paths |-> <<>>, indexed |-> {}]

NoDeleter == [pc |-> "idle", docs |-> {}, behind |-> FALSE]

NoIndexer == [pc |-> "idle", found |-> {}, documents |-> {}, behind |-> FALSE]

NoDisplay == [pc |-> "idle", response |-> <<>>, enabled |-> FALSE, content |-> <<>>]

NoParse == [pc |-> "idle", response |-> <<>>, toolCalls |-> <<>>]

\* One activation of processResponse: the parsed calls, the index of the call
\* it is at, and the results so far.
NoResponse == [phase |-> "idle", parsed |-> <<>>, toolCalls |-> <<>>, i |-> 0, toolResults |-> <<>>]

\* One activation.  pc names the await it is suspended at:
\*   vault: "health" (checkAllHealth, then the two yields and
\*                    getIndexedPathsWithMtime of lines 218-227)
\*   both:  "pre"    (cachedRead, then deleteByPath), "rate" (the limiter race),
\*          "embed"  (providerManager.embed, then upsertBatch after the last
\*                    batch), "yield" (yieldToUIFrame)
\* An await whose continuation touches nothing shared is merged with the next.
NoRun == [kind |-> "none", pc |-> "idle", force |-> FALSE, files |-> <<>>, i |-> 0,
          b |-> 0, nb |-> 0, aborted |-> FALSE, healthyEmb |-> FALSE]

(***************************************************************************)
(* Pure helpers.                                                           *)
(***************************************************************************)

\* The messages the orchestrator can see.  ProviderManager.embed raises
\* "All providers failed for embedding. ..." or "No providers configured";
\* indexSingleFile raises "Indexing stopped"; the store and the vault raise
\* their own I/O messages.
Messages == {"AllProvidersFailed", "NoProviders", "IndexingStopped", "StoreError", "ReadError"}

\* isConnectionError, lines 451-472: of these, only the aggregated failover
\* message holds one of the fingerprints ('All providers failed').
isConnectionError(msg) == msg \in {"AllProvidersFailed"}

\* One endpoint's HealthCheckResult: unhealthy, healthy without the embedding
\* model, healthy with it.
HealthKinds == {"down", "noEmb", "ok"}

RECURSIVE SeqsUpTo(_, _)
SeqsUpTo(S, n) ==
  IF n = 0 THEN {<<>>}
  ELSE LET shorter == SeqsUpTo(S, n - 1)
       IN shorter \cup {Append(s, x) : s \in {t \in shorter : Len(t) = n - 1}, x \in S}

HealthResults == SeqsUpTo(HealthKinds, NumEndpoints)

\* indexVault lines 184-191: the first healthy result in the map's order.
FirstHealthy(h) ==
  IF \E k \in 1..Len(h) : h[k] # "down"
  THEN CHOOSE k \in 1..Len(h) : h[k] # "down" /\ \A j \in 1..(k - 1) : h[j] = "down"
  ELSE 0

GatePasses_IgnoresModel(h) == FirstHealthy(h) # 0

\* indexVault lines 193-207
GatePasses(h) == FirstHealthy(h) # 0 /\ h[FirstHealthy(h)] = "ok"

RECURSIVE FilterSeq(_, _)
FilterSeq(s, keep) ==
  IF s = <<>> THEN <<>>
  ELSE IF Head(s) \in keep THEN <<Head(s)>> \o FilterSeq(Tail(s), keep)
  ELSE FilterSeq(Tail(s), keep)

AllFiles == [k \in 1..NumFiles |-> k]

\* indexVault lines 230-241
filesToIndex(force, snap) ==
  IF force THEN AllFiles ELSE FilterSeq(AllFiles, Files \ snap)

InSeq(x, s) == \E k \in 1..Len(s) : s[k] = x

Active(r) == runs[r].kind # "none"

FreeSlot == CHOOSE r \in Runs : ~Active(r) /\ \A q \in Runs : q < r => Active(q)

HasFree == \E r \in Runs : ~Active(r)

\* every other live activation has seen the abort flag raised
Abort(rs, except) ==
  [q \in Runs |-> IF q # except /\ rs[q].kind # "none"
                  THEN [rs[q] EXCEPT !.aborted = TRUE] ELSE rs[q]]

(***************************************************************************)
(* The orchestrator's synchronous continuations, as functions of the       *)
(* orchestrator state o = the fields a continuation may assign.            *)
(***************************************************************************)
Cur == [runs |-> runs, progress |-> progress, ce |-> consecutiveErrors,
        cb |-> circuitBroken, tripped |-> tripped, isIdx |-> isIndexing,
        timer |-> timerPending, threw |-> FALSE]

\* The finally blocks: indexVault lines 323-327, processIndexQueue lines 438-445.
Finish(o, r) ==
  IF o.runs[r].kind = "vault"
  THEN [o EXCEPT !.isIdx = FALSE, !.progress = FALSE,
                 !.runs = [o.runs EXCEPT ![r] = NoRun]]
  ELSE [o EXCEPT !.isIdx = FALSE,
                 !.timer = o.timer \/ (indexQueue # <<>> /\ ~o.cb),
                 !.runs = [o.runs EXCEPT ![r] = NoRun]]

\* An exception leaves indexVault through the finally block, lines 323-327:
\* the try of line 179 has no catch.
Throw(o, r) == [Finish(o, r) EXCEPT !.threw = TRUE]

\* After the loop: indexVault lines 316-321 return, or throw on the null
\* this.progress; either way the finally block runs.
AfterLoop(o, r) == Finish(o, r)

\* The top of iteration i: indexVault lines 268-284, processIndexQueue lines
\* 407-414.  With this.progress null, line 278 throws inside the try and line
\* 293 throws again inside the catch.
Iter(o, r, i) ==
  LET run == o.runs[r] IN
  IF i > Len(run.files) THEN AfterLoop(o, r)
  ELSE IF o.cb THEN AfterLoop(o, r)
  ELSE IF run.kind = "vault" /\ ~o.progress THEN Throw(o, r)
  ELSE [o EXCEPT !.runs = [o.runs EXCEPT ![r] = [run EXCEPT !.i = i, !.pc = "pre",
                                                           !.b = 0, !.nb = 0]]]

\* The connection branch of the catch: indexVault lines 296-303,
\* processIndexQueue lines 422-431.
Failed(o, r, msg) ==
  IF isConnectionError(msg)
  THEN IF o.ce + 1 >= maxConsecutiveErrors
       THEN AfterLoop([o EXCEPT !.ce = o.ce + 1, !.cb = TRUE, !.tripped = TRUE,
                                !.runs = Abort(o.runs, r)], r)
       ELSE [o EXCEPT !.ce = o.ce + 1, !.runs[r].pc = "yield"]
  ELSE [o EXCEPT !.runs[r].pc = "yield"]

\* indexSingleFile has settled for the current document of run r, with "ok" or
\* with the message it threw: indexVault lines 284-312, processIndexQueue
\* lines 414-436.  With this.progress null, lines 288 and 293 throw.
DocDone(o, r, msg) ==
  IF o.runs[r].kind = "vault"
  THEN IF ~o.progress THEN Throw(o, r)
       ELSE IF msg = "ok"
       THEN [o EXCEPT !.ce = 0, !.runs[r].pc = "yield"]
       ELSE Failed(o, r, msg)
  ELSE IF msg = "ok"
       THEN [o EXCEPT !.ce = 0, !.runs[r].pc = "yield"]
       ELSE Failed(o, r, msg)

\* The top of a batch iteration of indexSingleFile: lines 513-534.
BatchTop(o, r, b) ==
  IF o.cb THEN DocDone(o, r, "IndexingStopped")
  ELSE [o EXCEPT !.runs[r].b = b, !.runs[r].pc = "rate"]

Apply(o) ==
  /\ runs' = o.runs
  /\ progress' = o.progress
  /\ consecutiveErrors' = o.ce
  /\ circuitBroken' = o.cb
  /\ tripped' = o.tripped
  /\ isIndexing' = o.isIdx
  /\ timerPending' = o.timer

CurPath(r) == runs[r].files[runs[r].i]

(***************************************************************************)
(* EmbeddingManager: the public operations.                                *)
(***************************************************************************)

\* updateSettings, lines 80-96.  A debounced function replaced at lines 87-91
\* keeps its armed timer, so timerPending is left alone.
updateSettings ==
  /\ circuitBroken' = FALSE
  /\ consecutiveErrors' = 0
  /\ tripped' = FALSE
  /\ UNCHANGED <<isIndexing, indexQueue, progress, timerPending, runs, store>>

\* resetCircuitBreaker, lines 101-104
resetCircuitBreaker ==
  /\ circuitBroken' = FALSE
  /\ consecutiveErrors' = 0
  /\ tripped' = FALSE
  /\ UNCHANGED <<isIndexing, indexQueue, progress, timerPending, runs, store>>

\* forceStop, lines 109-115
forceStop ==
  /\ circuitBroken' = TRUE
  /\ indexQueue' = <<>>
  /\ isIndexing' = FALSE
  /\ progress' = FALSE
  /\ runs' = Abort(runs, 0)
  /\ UNCHANGED <<consecutiveErrors, timerPending, store, tripped>>

\* queueFile, lines 127-136.  allowed: embedding is enabled, the path is not
\* excluded, a provider is configured, the platform is allowed.
queueFile(path, allowed) ==
  /\ IF allowed /\ ~circuitBroken
     THEN /\ indexQueue' = IF InSeq(path, indexQueue) THEN indexQueue
                           ELSE Append(indexQueue, path)
          /\ timerPending' = TRUE
     ELSE UNCHANGED <<indexQueue, timerPending>>
  /\ UNCHANGED <<isIndexing, circuitBroken, consecutiveErrors, progress, runs, store,
                 tripped>>

\* indexVault up to its first await, lines 153-181.  allowed: embedding is
\* enabled and the platform is allowed.
indexVault(force, allowed) ==
  IF ~allowed \/ isIndexing
  THEN UNCHANGED idxVars
  ELSE /\ HasFree
       /\ circuitBroken' = FALSE
       /\ consecutiveErrors' = 0
       /\ tripped' = FALSE
       /\ isIndexing' = TRUE
       /\ runs' = [runs EXCEPT ![FreeSlot] = [NoRun EXCEPT !.kind = "vault",
                                                !.pc = "health", !.force = force]]
            /\ UNCHANGED <<indexQueue, progress, timerPending, store>>

\* The debounce timer fires (constructor lines 72-74): processIndexQueue up to
\* its first await, lines 393-414.
processIndexQueue ==
  /\ timerPending
  /\ timerPending' = FALSE
  /\ IF isIndexing \/ indexQueue = <<>>
     THEN UNCHANGED <<isIndexing, indexQueue, runs>>
     ELSE IF circuitBroken
     THEN /\ indexQueue' = <<>>
          /\ UNCHANGED <<isIndexing, runs>>
     ELSE /\ HasFree
          /\ indexQueue' = <<>>
          /\ isIndexing' = TRUE
          /\ runs' = [runs EXCEPT ![FreeSlot] = [NoRun EXCEPT !.kind = "queue",
                                    !.pc = "pre", !.files = indexQueue, !.i = 1]]
  /\ UNCHANGED <<circuitBroken, consecutiveErrors, progress, store, tripped>>

(***************************************************************************)
(* indexVault after its awaits.                                            *)
(***************************************************************************)

\* checkAllHealth has settled with the results h, in completion order, and,
\* past the gate, getIndexedPathsWithMtime with storeOk (a rejection of the
\* store read is not caught); then the filter, the progress object and the
\* first iteration: lines 181-284.
HealthOut(r, h, storeOk) ==
  IF ~GatePasses(h) THEN Finish(Cur, r)
  ELSE IF ~runs[r].force /\ ~storeOk THEN Throw(Cur, r)
  ELSE LET todo == filesToIndex(runs[r].force, {p \in Files : store[p] = 1}) IN
       IF todo = <<>> THEN Finish(Cur, r)
       ELSE Iter([Cur EXCEPT !.runs[r].files = todo, !.runs[r].force = FALSE,
                             !.runs[r].healthyEmb = (\E k \in 1..Len(h) : h[k] = "ok"),
                             !.progress = TRUE], r, 1)

HealthDone(r, h, storeOk) ==
  /\ runs[r].kind = "vault" /\ runs[r].pc = "health"
  /\ (GatePasses(h) /\ runs[r].force) => storeOk
  /\ Apply(HealthOut(r, h, storeOk))
  /\ UNCHANGED <<indexQueue, store>>

\* yieldToUIFrame is over (indexVault line 312, processIndexQueue line 436):
\* the next iteration
YieldOut(r) == Iter(Cur, r, runs[r].i + 1)

YieldDone(r) ==
  /\ Active(r) /\ runs[r].pc = "yield"
  /\ Apply(YieldOut(r))
  /\ UNCHANGED <<indexQueue, store>>

(***************************************************************************)
(* indexSingleFile after its awaits, lines 477-574.                        *)
(***************************************************************************)

\* cachedRead and deleteByPath have settled, lines 480-534; res is "ok" or the
\* failure, n the number of sub-batches of the document's chunks (0: no chunk).
PreOut(r, res, n) ==
  IF res # "ok" THEN DocDone(Cur, r, res)
  ELSE IF n = 0 THEN DocDone(Cur, r, "ok")
  ELSE BatchTop([Cur EXCEPT !.runs[r].nb = n], r, 1)

PreDone(r, res, n) ==
  /\ Active(r) /\ runs[r].pc = "pre"
  /\ res # "ok" => n = 0
  /\ store' = IF res # "ok" THEN store ELSE [store EXCEPT ![CurPath(r)] = 0]
  /\ Apply(PreOut(r, res, n))
  /\ UNCHANGED indexQueue

\* the rate limiter race has settled; the embed request goes out: lines 534-544
RateDone(r) ==
  /\ Active(r) /\ runs[r].pc = "rate"
  /\ Apply([Cur EXCEPT !.runs[r].pc = "embed"])
  /\ UNCHANGED <<indexQueue, store>>

\* providerManager.embed has settled, lines 541-566, then the next batch or,
\* after the last one, upsertBatch, lines 571-574
EmbedOut(r, out) ==
  IF out = "ok"
  THEN IF runs[r].b < runs[r].nb THEN BatchTop(Cur, r, runs[r].b + 1)
       ELSE DocDone(Cur, r, "ok")
  ELSE DocDone(Cur, r, out)

EmbedDone(r, out) ==
  /\ Active(r) /\ runs[r].pc = "embed"
  /\ out = "StoreError" => runs[r].b = runs[r].nb
  /\ store' = IF out = "ok" /\ runs[r].b >= runs[r].nb
              THEN [store EXCEPT ![CurPath(r)] = 1] ELSE store
  /\ Apply(EmbedOut(r, out))
  /\ UNCHANGED indexQueue

InitIndex ==
  /\ isIndexing = FALSE
  /\ circuitBroken = FALSE
  /\ consecutiveErrors = 0
  /\ indexQueue = <<>>
  /\ progress = FALSE
  /\ timerPending = FALSE
  /\ runs = [r \in Runs |-> NoRun]
  /\ store = [p \in Files |-> 0]
  /\ tripped = FALSE
  \* the other subsystems are not followed here: their variables are parked
  /\ endpoints = 0
  /\ providers = 0
  /\ providerStatus = 0
  /\ call = 0
  /\ vault = 0
  /\ config = 0
  /\ pr = 0
  /\ records = 0
  /\ single = 0
  /\ nextVersion = 0
  /\ modal = 0
  /\ content = 0
  /\ rerun = 0
  /\ pathRecords = 0
  /\ upd = 0
  /\ writer = 0
  /\ limiter = 0
  /\ embedCalls = 0
  /\ srch = 0
  /\ req = 0
  /\ listing = 0
  /\ parse = 0
  /\ part = 0

NextIndex ==
  \/ updateSettings /\ UNCHANGED <<gwVars, toolVars, docVars, extVars>>
  \/ resetCircuitBreaker /\ UNCHANGED <<gwVars, toolVars, docVars, extVars>>
  \/ forceStop /\ UNCHANGED <<gwVars, toolVars, docVars, extVars>>
  \/ \E p \in Files, allowed \in BOOLEAN : queueFile(p, allowed) /\ UNCHANGED <<gwVars, toolVars, docVars, extVars>>
  \/ \E force \in BOOLEAN, allowed \in BOOLEAN : indexVault(force, allowed) /\ UNCHANGED <<gwVars, toolVars, docVars, extVars>>
  \/ processIndexQueue /\ UNCHANGED <<gwVars, toolVars, docVars, extVars>>
  \/ \E r \in Runs, h \in HealthResults, storeOk \in BOOLEAN : HealthDone(r, h, storeOk) /\ UNCHANGED <<gwVars, toolVars, docVars, extVars>>
  \/ \E r \in Runs : YieldDone(r) /\ UNCHANGED <<gwVars, toolVars, docVars, extVars>>
  \/ \E r \in Runs, res \in {"ok", "ReadError", "StoreError"}, n \in 0..MaxBatches :
       PreDone(r, res, n) /\ UNCHANGED <<gwVars, toolVars, docVars, extVars>>
  \/ \E r \in Runs : RateDone(r) /\ UNCHANGED <<gwVars, toolVars, docVars, extVars>>
  \/ \E r \in Runs, out \in {"ok", "AllProvidersFailed", "NoProviders", "StoreError"} :
       EmbedDone(r, out) /\ UNCHANGED <<gwVars, toolVars, docVars, extVars>>

(***************************************************************************)
(* Runs of indexVault one after the other over a vault that does not       *)
(* change: a document has content[p] sub-batches of chunks, 0 for an empty *)
(* document (indexSingleFile lines 496-501).                               *)
(***************************************************************************)
\* what a continuation of run r adds to the observation: failed tells whether
\* it ended without indexing or counted a failed document; a run that ends
\* was full when it was forced (it selected every document) and nothing failed
Observe(r, failed) ==
  rerun' = [rerun EXCEPT
              !.failed = @ \/ failed,
              !.full = IF runs'[r].kind = "none"
                       THEN rerun.forced /\ ~(rerun.failed \/ failed) ELSE @]

RerunStart(force) ==
  /\ indexVault(force, TRUE)
  /\ rerun' = IF isIndexing THEN rerun
              ELSE [rerun EXCEPT !.forced = force, !.failed = FALSE]

RerunHealth(r, h, storeOk) ==
  /\ HealthDone(r, h, storeOk)
  /\ Observe(r, ~GatePasses(h) \/ HealthOut(r, h, storeOk).threw)

RerunPre(r, res) ==
  /\ PreDone(r, res, IF res = "ok" THEN content[CurPath(r)] ELSE 0)
  /\ Observe(r, res # "ok")

RerunEmbed(r, out) ==
  /\ EmbedDone(r, out)
  /\ Observe(r, out # "ok")

RerunYield(r) ==
  /\ YieldDone(r)
  /\ Observe(r, YieldOut(r).threw)

InitRerun ==
  /\ isIndexing = FALSE
  /\ circuitBroken = FALSE
  /\ consecutiveErrors = 0
  /\ indexQueue = <<>>
  /\ progress = FALSE
  /\ timerPending = FALSE
  /\ runs = [r \in Runs |-> NoRun]
  /\ store = [p \in Files |-> 0]
  /\ tripped = FALSE
  /\ endpoints = [e \in EndpointIds |-> [enabled |-> FALSE, priority |-> 0]]
  /\ providers = {}
  /\ providerStatus = [e \in EndpointIds |-> "none"]
  /\ call = NoCall
  /\ vault = {}
  /\ config = [enabled |-> FALSE, requireConfirmation |-> FALSE]
  /\ pr = NoResponse
  /\ records = [c \in ChunkIndexes |-> NoRecord]
  /\ single = [d \in Singles |-> NoSingle]
  /\ nextVersion = 1
  /\ modal = NoModal
  /\ content \in [Files -> 0..MaxBatches]
  /\ rerun = NoRerun
  /\ pathRecords = [p \in Paths |-> {}]
  /\ upd = NoUpdate
  /\ writer = NoWriter
  /\ limiter = NoLimiter
  /\ embedCalls = [s \in Sites |-> NoEmbedCall]
  /\ srch = NoSearch
  /\ req = NoRequest
  /\ listing = NoListing
  /\ parse = NoParse
  /\ part = 0

NextRerun ==
  \/ \E force \in BOOLEAN : RerunStart(force) /\ UNCHANGED <<content, gwVars, toolVars, docVars, notRerun>>
  \/ \E r \in Runs, h \in HealthResults, storeOk \in BOOLEAN :
       RerunHealth(r, h, storeOk) /\ UNCHANGED <<content, gwVars, toolVars, docVars, notRerun>>
  \/ \E r \in Runs, res \in {"ok", "ReadError", "StoreError"} :
       RerunPre(r, res) /\ UNCHANGED <<content, gwVars, toolVars, docVars, notRerun>>
  \/ \E r \in Runs : RateDone(r) /\ UNCHANGED <<rerunVars, gwVars, toolVars, docVars, notRerun>>
  \/ \E r \in Runs, out \in {"ok", "AllProvidersFailed", "NoProviders", "StoreError"} :
       RerunEmbed(r, out) /\ UNCHANGED <<content, gwVars, toolVars, docVars, notRerun>>
  \/ \E r \in Runs : RerunYield(r) /\ UNCHANGED <<content, gwVars, toolVars, docVars, notRerun>>

(***************************************************************************)
(* ProviderManager: priority failover.                                     *)
(***************************************************************************)
\* settings.endpoints in array order
EndpointOrder == [k \in 1..NumProviders |-> k]

\* Array.prototype.sort with (a, b) => a.priority - b.priority is stable: it
\* orders by priority and, among equals, by the place in the array.  s holds
\* ids in array order, which is ascending.
SortsBefore(a, b) ==
  \/ endpoints[a].priority < endpoints[b].priority
  \/ endpoints[a].priority = endpoints[b].priority /\ a < b

\* the place of an endpoint in the priority order of all endpoints
Rank(e) == Cardinality({x \in EndpointIds : SortsBefore(x, e)}) + 1

SortByPriority(s) ==
  LET ids == {s[k] : k \in 1..Len(s)}
  IN [k \in 1..Len(s) |->
        CHOOSE e \in ids : Cardinality({x \in ids : SortsBefore(x, e)}) = k - 1]

EnabledIds == {e \in EndpointIds : endpoints[e].enabled}

getSortedProviders_Unsorted == FilterSeq(FilterSeq(EndpointOrder, EnabledIds), providers)

\* getSortedProviders, lines 104-112
getSortedProviders ==
  FilterSeq(SortByPriority(FilterSeq(EndpointOrder, EnabledIds)), providers)

MarkUnhealthy_Skipped(st, e) == st

\* the catch of the failover loop, lines 176-186: the status update
MarkUnhealthy(st, e) == IF st[e] # "none" THEN [st EXCEPT ![e] = "unhealthy"] ELSE st

\* the settings tab's toggle, SettingsTab.ts lines 339-342: the endpoint is
\* changed in place; updateSettings follows after the await of saveSettings
SetEnabled(e, v) ==
  /\ endpoints[e].enabled # v
  /\ endpoints' = [endpoints EXCEPT ![e].enabled = v]
  /\ UNCHANGED <<providers, providerStatus, call>>

\* moveEndpoint, SettingsTab.ts lines 426-441: swaps the priorities of two
\* neighbours of the priority order, in place
moveEndpoint(e, direction) ==
  LET index == Rank(e)
      newIndex == index + direction
  IN /\ newIndex >= 1 /\ newIndex <= NumProviders
     /\ LET other == CHOOSE x \in EndpointIds : Rank(x) = newIndex
        IN endpoints' = [endpoints EXCEPT ![e].priority = endpoints[other].priority,
                                          ![other].priority = endpoints[e].priority]
     /\ UNCHANGED <<providers, providerStatus, call>>

\* ProviderManager.updateSettings and initializeProviders, lines 53-74, 96-99
ProviderManager_updateSettings ==
  /\ providers' = EnabledIds
  /\ providerStatus' = [e \in EndpointIds |-> IF endpoints[e].enabled THEN "healthy" ELSE "none"]
  /\ call' = IF call.phase = "idle" THEN call ELSE [call EXCEPT !.disturbed = TRUE]
  /\ UNCHANGED endpoints

\* one provider's health check of checkAllHealth has settled, lines 140-150
HealthChecked(e, healthy) ==
  /\ providerStatus[e] # "none"
  /\ providerStatus' = [providerStatus EXCEPT ![e] = IF healthy THEN "healthy" ELSE "unhealthy"]
  /\ call' = IF call.phase = "idle" THEN call ELSE [call EXCEPT !.disturbed = TRUE]
  /\ UNCHANGED <<endpoints, providers>>

\* The three failover methods share one control flow up to the first await:
\* the sorted providers are read once, an empty list is an error, else the
\* first provider is called.
StartCall ==
  /\ call.phase = "idle"
  /\ LET list == getSortedProviders
     IN call' = IF list = <<>>
                THEN [NoCall EXCEPT !.phase = "done", !.outcome = "NoProviders"]
                ELSE [NoCall EXCEPT !.phase = "waiting", !.list = list,
                                    !.attempts = <<list[1]>>]
  /\ UNCHANGED <<endpoints, providers, providerStatus>>

\* chat, lines 161-175
chat == StartCall

\* chatStream, lines 204-222
chatStream == StartCall

\* embed, lines 248-263
embed == StartCall

\* the provider's promise has settled: lines 175-198, 222-242, 263-283
AttemptDone(ok) ==
  /\ call.phase = "waiting"
  /\ LET n == Len(call.attempts)
         e == call.attempts[n]
     IN IF ok
        THEN /\ call' = [call EXCEPT !.phase = "done", !.outcome = "ok", !.response = e]
             /\ UNCHANGED providerStatus
        ELSE /\ providerStatus' = MarkUnhealthy(providerStatus, e)
             /\ call' = IF n < Len(call.list)
                        THEN [call EXCEPT !.lastError = e,
                                          !.attempts = Append(call.attempts, call.list[n + 1])]
                        ELSE [call EXCEPT !.lastError = e, !.phase = "done",
                                          !.outcome = "AllProvidersFailed"]
  /\ UNCHANGED <<endpoints, providers>>

\* the caller has taken the result
CallReturned ==
  /\ call.phase = "done"
  /\ call' = NoCall
  /\ UNCHANGED <<endpoints, providers, providerStatus>>

\* addEndpoint, SettingsTab.ts lines 405-419, gives the k-th endpoint the
\* priority k - 1
InitGateway ==
  /\ \E en \in [EndpointIds -> BOOLEAN] :
       endpoints = [e \in EndpointIds |-> [enabled |-> en[e], priority |-> e - 1]]
  /\ providers = EnabledIds
  /\ providerStatus = [e \in EndpointIds |-> IF endpoints[e].enabled THEN "healthy" ELSE "none"]
  /\ call = NoCall
  \* the other subsystems stay as constructed
  /\ isIndexing = FALSE
  /\ circuitBroken = FALSE
  /\ consecutiveErrors = 0
  /\ indexQueue = <<>>
  /\ progress = FALSE
  /\ timerPending = FALSE
  /\ runs = [r \in Runs |-> NoRun]
  /\ store = [p \in Files |-> 0]
  /\ tripped = FALSE
  /\ vault = {}
  /\ config = [enabled |-> FALSE, requireConfirmation |-> FALSE]
  /\ pr = NoResponse
  /\ records = [c \in ChunkIndexes |-> NoRecord]
  /\ single = [d \in Singles |-> NoSingle]
  /\ nextVersion = 1
  /\ modal = NoModal
  /\ content = [p \in Files |-> 0]
  /\ rerun = NoRerun
  /\ pathRecords = [p \in Paths |-> {}]
  /\ upd = NoUpdate
  /\ writer = NoWriter
  /\ limiter = NoLimiter
  /\ embedCalls = [s \in Sites |-> NoEmbedCall]
  /\ srch = NoSearch
  /\ req = NoRequest
  /\ listing = NoListing
  /\ parse = NoParse
  /\ part = 0

NextGateway ==
  \/ \E e \in EndpointIds, v \in BOOLEAN : SetEnabled(e, v) /\ UNCHANGED <<idxVars, toolVars, docVars, extVars>>
  \/ \E e \in EndpointIds, d \in {-1, 1} : moveEndpoint(e, d) /\ UNCHANGED <<idxVars, toolVars, docVars, extVars>>
  \/ ProviderManager_updateSettings /\ UNCHANGED <<idxVars, toolVars, docVars, extVars>>
  \/ \E e \in EndpointIds, h \in BOOLEAN : HealthChecked(e, h) /\ UNCHANGED <<idxVars, toolVars, docVars, extVars>>
  \/ chat /\ UNCHANGED <<idxVars, toolVars, docVars, extVars>>
  \/ chatStream /\ UNCHANGED <<idxVars, toolVars, docVars, extVars>>
  \/ embed /\ UNCHANGED <<idxVars, toolVars, docVars, extVars>>
  \/ \E ok \in BOOLEAN : AttemptDone(ok) /\ UNCHANGED <<idxVars, toolVars, docVars, extVars>>
  \/ CallReturned /\ UNCHANGED <<idxVars, toolVars, docVars, extVars>>

(***************************************************************************)
(* Tool calling: strings are sequences of one-character strings.           *)
(***************************************************************************)
TraversalPath == <<".", ".", "/", ".", ".", "/", "e", "t", "c", "/", "p", "a", "s", "s", "w", "d">>
AbsolutePath == <<"/", "e", "t", "c", "/", "p", "a", "s", "s", "w", "d">>
NotesFolder == <<"n">>
NotePath == <<"n", "/", "a">>
NoteFile == <<"n", "/", "a", ".", "m", "d">>
mdExt == <<".", "m", "d">>

Chars == {".", "/", "\\", " ", "<", ">", ":", "\"", "|", "?", "*",
          "a", "c", "d", "e", "m", "n", "p", "s", "t", "w"}

RECURSIVE StripLeading(_, _)
StripLeading(s, c) ==
  IF s # <<>> /\ Head(s) \in c THEN StripLeading(Tail(s), c) ELSE s

RECURSIVE StripTrailing(_, _)
StripTrailing(s, c) ==
  IF s # <<>> /\ s[Len(s)] \in c THEN StripTrailing(SubSeq(s, 1, Len(s) - 1), c) ELSE s

\* String.prototype.trim
trim(s) == StripTrailing(StripLeading(s, {" "}), {" "})

\* replace(/[\\/]+/g, '/'): every run of separators becomes one slash
RECURSIVE CollapseSeparators(_, _)
CollapseSeparators(s, seps) ==
  IF s = <<>> THEN <<>>
  ELSE IF Head(s) \in seps
  THEN <<"/">> \o CollapseSeparators(StripLeading(s, seps), seps)
  ELSE <<Head(s)>> \o CollapseSeparators(Tail(s), seps)

includes(s, sub) ==
  \E k \in 1..(Len(s) - Len(sub) + 1) : SubSeq(s, k, k + Len(sub) - 1) = sub

startsWith(s, pre) == Len(s) >= Len(pre) /\ SubSeq(s, 1, Len(pre)) = pre

endsWith(s, suf) == Len(s) >= Len(suf) /\ SubSeq(s, Len(s) - Len(suf) + 1, Len(s)) = suf

\* normalizePath of the host API, as ToolExecutor calls it: separator runs
\* become one slash, leading and trailing slashes go, the empty path is "/"
normalizePath(s) ==
  LET t == StripTrailing(StripLeading(CollapseSeparators(s, {"/", "\\"}), {"/"}), {"/"})
  IN IF t = <<>> THEN <<"/">> ELSE t

\* sanitizePath, lines 94-116; ok = FALSE is the thrown "Invalid path" error
sanitizePath(pathInput) ==
  LET p1 == trim(pathInput)
      p2 == StripTrailing(StripLeading(p1, {"/"}), {"/"})
      p3 == FilterSeq(p2, Chars \ {"<", ">", ":", "\"", "|", "?", "*"})
      p4 == CollapseSeparators(p3, {"/"})
      normalized == normalizePath(p4)
  IN [ok |-> ~(\/ includes(normalized, <<".", ".">>)
               \/ startsWith(normalized, <<"/">>)
               \/ startsWith(normalized, <<"\\">>)),
      path |-> normalized]

\* vault.getAbstractFileByPath: the entry's type, or "none"
getAbstractFileByPath(v, path) ==
  IF \E x \in v : x.path = path THEN (CHOOSE x \in v : x.path = path).type ELSE "none"

\* vault.getMarkdownFiles
getMarkdownFiles(v) == {x.path : x \in {y \in v : y.type = "file" /\ endsWith(y.path, mdExt)}}

RECURSIVE LastSegment(_)
LastSegment(s) ==
  IF \E k \in 1..Len(s) : s[k] = "/" THEN LastSegment(Tail(s)) ELSE s

\* TFile.basename: the file name without its extension
basename(path) ==
  LET name == LastSegment(path)
  IN IF endsWith(name, mdExt) THEN SubSeq(name, 1, Len(name) - 3) ELSE name

NoFile == <<>>

\* findFile, lines 36-71; the model's alphabet is lower case, so toLowerCase
\* changes nothing
findFile(v, pathInput) ==
  LET t == trim(pathInput)
      path == IF startsWith(t, <<"/">>) THEN Tail(t) ELSE t
      searchName == IF endsWith(path, mdExt) THEN SubSeq(path, 1, Len(path) - 3) ELSE path
      allFiles == getMarkdownFiles(v)
      exact == {f \in allFiles : basename(f) = searchName}
      partial == {f \in allFiles : \/ includes(f, searchName)
                                   \/ f = path
                                   \/ f = path \o mdExt}
  IN IF getAbstractFileByPath(v, normalizePath(path)) = "file" THEN normalizePath(path)
     ELSE IF ~endsWith(path, mdExt)
             /\ getAbstractFileByPath(v, normalizePath(path \o mdExt)) = "file"
     THEN normalizePath(path \o mdExt)
     ELSE IF exact # {} THEN CHOOSE f \in exact : TRUE
     ELSE IF partial # {} THEN CHOOSE f \in partial : TRUE
     ELSE NoFile

\* TOOL_DEFINITIONS: the tools of the model and their required parameter
ToolNames == {"create_folder", "delete_folder", "delete_note", "get_note_content"}

\* getToolByName, lines 955-957
getToolByName(name) == name \in ToolNames

isDestructiveTool_NotesOnly(toolName) == toolName \in {"delete_note"}

\* isDestructiveTool, lines 1025-1031
isDestructiveTool(toolName) == toolName \in {"delete_note", "delete_folder"}

\* A parsed argument value, and the arguments of a call: a JSON object with
\* the members path and force, or a JSON value that is not an object.
Absent == [t |-> "absent", s |-> <<>>]
NotAString == [t |-> "number", s |-> <<>>]
StringArg(s) == [t |-> "string", s |-> s]

PathValues ==
  {Absent, NotAString} \cup {StringArg(s) : s \in {TraversalPath, AbsolutePath, NotePath}}

Arguments ==
  {[kind |-> "primitive", path |-> Absent, force |-> FALSE]} \cup
  {[kind |-> "object", path |-> pv, force |-> FALSE] : pv \in PathValues}

ToolCalls ==
  [name : ToolNames, arguments : Arguments] \cup
  {[name |-> "bogus_tool", arguments |-> [kind |-> "object", path |-> Absent, force |-> FALSE]]}

ToolCallLists == SeqsUpTo(ToolCalls, MaxCalls)

Failure(msg, touched) == [thrown |-> FALSE, success |-> FALSE, message |-> msg, touched |-> touched]
Success(msg) == [thrown |-> FALSE, success |-> TRUE, message |-> msg, touched |-> TRUE]

\* the children of a folder
Under(v, folder) == {x \in v : startsWith(x.path, folder \o <<"/">>)}

\* createFolder, lines 191-217; the outcome and the vault after it
createFolder(v, args, storeFails) ==
  IF args.path.t # "string" THEN [r |-> Failure("Error: must be a string", FALSE), v |-> v]
  ELSE LET p == sanitizePath(args.path.s) IN
  IF ~p.ok THEN [r |-> Failure("Error: Invalid path", FALSE), v |-> v]
  ELSE IF getAbstractFileByPath(v, p.path) = "folder"
  THEN [r |-> Success("already exists"), v |-> v]
  ELSE IF getAbstractFileByPath(v, p.path) = "file"
  THEN [r |-> Failure("a file with the name exists", TRUE), v |-> v]
  ELSE IF storeFails THEN [r |-> Failure("Error: store", TRUE), v |-> v]
  ELSE [r |-> Success("Created folder"),
        v |-> v \cup {[path |-> p.path, type |-> "folder"]}]

deleteFolder_ForceIgnored(v, args, storeFails) ==
  IF args.path.t # "string" THEN [r |-> Failure("Error: must be a string", FALSE), v |-> v]
  ELSE LET p == sanitizePath(args.path.s) IN
  IF ~p.ok THEN [r |-> Failure("Error: Invalid path", FALSE), v |-> v]
  ELSE IF getAbstractFileByPath(v, p.path) # "folder"
  THEN [r |-> Failure("not found", TRUE), v |-> v]
  ELSE IF storeFails THEN [r |-> Failure("Error: store", TRUE), v |-> v]
  ELSE [r |-> Success("Deleted folder"),
        v |-> (v \ Under(v, p.path)) \ {[path |-> p.path, type |-> "folder"]}]

\* deleteFolder, lines 219-253
deleteFolder(v, args, storeFails) ==
  IF args.path.t # "string" THEN [r |-> Failure("Error: must be a string", FALSE), v |-> v]
  ELSE LET p == sanitizePath(args.path.s) IN
  IF ~p.ok THEN [r |-> Failure("Error: Invalid path", FALSE), v |-> v]
  ELSE IF getAbstractFileByPath(v, p.path) = "none"
  THEN [r |-> Failure("not found", TRUE), v |-> v]
  ELSE IF getAbstractFileByPath(v, p.path) # "folder"
  THEN [r |-> Failure("not a folder", TRUE), v |-> v]
  ELSE IF Under(v, p.path) # {} /\ ~args.force
  THEN [r |-> Failure("not empty", TRUE), v |-> v]
  ELSE IF storeFails THEN [r |-> Failure("Error: store", TRUE), v |-> v]
  ELSE [r |-> Success("Deleted folder"),
        v |-> (v \ Under(v, p.path)) \ {[path |-> p.path, type |-> "folder"]}]

\* deleteNote, lines 378-397
deleteNote(v, args, storeFails) ==
  IF args.path.t # "string" THEN [r |-> Failure("Error: must be a string", FALSE), v |-> v]
  ELSE LET file == findFile(v, args.path.s) IN
  IF file = NoFile THEN [r |-> Failure("not found", TRUE), v |-> v]
  ELSE IF storeFails THEN [r |-> Failure("Error: store", TRUE), v |-> v]
  ELSE [r |-> Success("Deleted note"), v |-> v \ {[path |-> file, type |-> "file"]}]

\* getNoteContent, lines 549-568
getNoteContent(v, args, storeFails) ==
  IF args.path.t # "string" THEN [r |-> Failure("Error: must be a string", FALSE), v |-> v]
  ELSE LET file == findFile(v, args.path.s) IN
  IF file = NoFile THEN [r |-> Failure("not found", TRUE), v |-> v]
  ELSE IF storeFails THEN [r |-> Failure("Error: store", TRUE), v |-> v]
  ELSE [r |-> Success("Content"), v |-> v]

\* execute, lines 121-187.  The test `param.name in toolCall.arguments` of line
\* 133 stands before the try: on arguments that are not an object it throws a
\* TypeError that nothing catches.
execute(v, toolCall, storeFails) ==
  IF ~getToolByName(toolCall.name)
  THEN [r |-> Failure("Unknown tool", FALSE), v |-> v]
  ELSE IF toolCall.arguments.kind # "object"
  THEN [r |-> [thrown |-> TRUE, success |-> FALSE, message |-> "TypeError", touched |-> FALSE],
        v |-> v]
  ELSE IF toolCall.arguments.path.t = "absent"
  THEN [r |-> Failure("Missing required parameter", FALSE), v |-> v]
  ELSE IF toolCall.name = "create_folder" THEN createFolder(v, toolCall.arguments, storeFails)
  ELSE IF toolCall.name = "delete_folder" THEN deleteFolder(v, toolCall.arguments, storeFails)
  ELSE IF toolCall.name = "delete_note" THEN deleteNote(v, toolCall.arguments, storeFails)
  ELSE getNoteContent(v, toolCall.arguments, storeFails)

(***************************************************************************)
(* ToolManager.processResponse.                                            *)
(***************************************************************************)
Min(a, b) == IF a < b THEN a ELSE b

Truncate_NoSplice(toolCalls) == toolCalls

\* processResponse lines 195-199: toolCalls.splice(maxToolCallsPerResponse)
Truncate(toolCalls) == SubSeq(toolCalls, 1, Min(Len(toolCalls), maxToolCallsPerResponse))

\* One entry of toolResults, with what the loop did to produce it: whether
\* execute ran, whether confirmation was required when line 222 was evaluated,
\* and the user's answer.
ToolResult(r, executed, required, answer) ==
  [success |-> r.success, message |-> r.message, touched |-> r.touched,
   executed |-> executed, required |-> required, answer |-> answer]

RECURSIVE Loop(_, _, _, _, _, _)
RECURSIVE Run(_, _, _, _, _, _, _, _)

\* the loop of processResponse from call i on, lines 207-249, up to its next
\* suspension or its end; fails[k] tells whether the store operation of call k
\* fails
Loop(toolCalls, i, v, results, requireConfirmation, fails) ==
  IF i > Len(toolCalls)
  THEN [phase |-> "returned", i |-> i, v |-> v, results |-> results]
  ELSE IF ~getToolByName(toolCalls[i].name)
  THEN Loop(toolCalls, i + 1, v,
            Append(results, ToolResult(Failure("Unknown tool", FALSE), FALSE,
                                       requireConfirmation, "none")),
            requireConfirmation, fails)
  ELSE IF requireConfirmation /\ isDestructiveTool(toolCalls[i].name)
  THEN [phase |-> "confirm", i |-> i, v |-> v, results |-> results]
  ELSE Run(toolCalls, i, v, results, requireConfirmation, fails, requireConfirmation, "none")

\* lines 235-248: execute call i; a rejection of execute is not caught
Run(toolCalls, i, v, results, requireConfirmation, fails, required, answer) ==
  LET e == execute(v, toolCalls[i], fails[i])
  IN IF e.r.thrown
     THEN [phase |-> "rejected", i |-> i, v |-> v, results |-> results]
     ELSE Loop(toolCalls, i + 1, e.v,
               Append(results, ToolResult(e.r, TRUE, required, answer)),
               requireConfirmation, fails)

Resume(out) ==
  /\ vault' = out.v
  /\ pr' = [pr EXCEPT !.phase = out.phase, !.i = out.i, !.toolResults = out.results]

\* ToolManager.updateConfig, lines 140-146
updateConfig(enabled, requireConfirmation) ==
  /\ config' = [enabled |-> enabled, requireConfirmation |-> requireConfirmation]
  /\ UNCHANGED <<vault, pr>>

\* processResponse up to its first suspension, lines 180-249; parsed is the
\* result of parseToolCalls
processResponse(parsed, fails) ==
  /\ pr.phase = "idle"
  /\ IF parsed = <<>> \/ ~config.enabled
     THEN /\ pr' = [NoResponse EXCEPT !.phase = "returned"]
          /\ UNCHANGED vault
     ELSE LET toolCalls == Truncate(parsed)
              out == Loop(toolCalls, 1, vault, <<>>, config.requireConfirmation, fails)
          IN /\ vault' = out.v
             /\ pr' = [phase |-> out.phase, parsed |-> parsed, toolCalls |-> toolCalls,
                       i |-> out.i, toolResults |-> out.results]
  /\ UNCHANGED config

\* the confirmation modal has resolved, lines 222-233 and 263-272: "confirm"
\* resolves true; "cancel" and closing the modal ("dismiss") resolve false
Decide(answer, fails) ==
  /\ pr.phase = "confirm"
  /\ IF answer = "confirm"
     THEN Resume(Run(pr.toolCalls, pr.i, vault, pr.toolResults,
                     config.requireConfirmation, fails, TRUE, answer))
     ELSE Resume(Loop(pr.toolCalls, pr.i + 1, vault,
                      Append(pr.toolResults,
                             ToolResult(Failure("Cancelled by user", FALSE), FALSE, TRUE, answer)),
                      config.requireConfirmation, fails))
  /\ UNCHANGED config

\* the caller has taken the outcome of processResponse
ResponseTaken ==
  /\ pr.phase \in {"returned", "rejected"}
  /\ pr' = NoResponse
  /\ UNCHANGED <<vault, config>>

InitTools ==
  /\ vault = {[path |-> NotesFolder, type |-> "folder"], [path |-> NoteFile, type |-> "file"]}
  /\ config = [enabled |-> TRUE, requireConfirmation |-> FALSE]
  /\ pr = NoResponse
  \* the other subsystems stay as constructed
  /\ isIndexing = FALSE
  /\ circuitBroken = FALSE
  /\ consecutiveErrors = 0
  /\ indexQueue = <<>>
  /\ progress = FALSE
  /\ timerPending = FALSE
  /\ runs = [r \in Runs |-> NoRun]
  /\ store = [p \in Files |-> 0]
  /\ tripped = FALSE
  /\ endpoints = [e \in EndpointIds |-> [enabled |-> FALSE, priority |-> 0]]
  /\ providers = {}
  /\ providerStatus = [e \in EndpointIds |-> "none"]
  /\ call = NoCall
  /\ records = [c \in ChunkIndexes |-> NoRecord]
  /\ single = [d \in Singles |-> NoSingle]
  /\ nextVersion = 1
  /\ modal = NoModal
  /\ content = [p \in Files |-> 0]
  /\ rerun = NoRerun
  /\ pathRecords = [p \in Paths |-> {}]
  /\ upd = NoUpdate
  /\ writer = NoWriter
  /\ limiter = NoLimiter
  /\ embedCalls = [s \in Sites |-> NoEmbedCall]
  /\ srch = NoSearch
  /\ req = NoRequest
  /\ listing = NoListing
  /\ parse = NoParse
  /\ part = 0

NextTools ==
  \/ \E en \in BOOLEAN, rc \in BOOLEAN : updateConfig(en, rc) /\ UNCHANGED <<idxVars, gwVars, docVars, extVars>>
  \/ \E parsed \in ToolCallLists, fails \in [1..MaxCalls -> BOOLEAN] :
       processResponse(parsed, fails) /\ UNCHANGED <<idxVars, gwVars, docVars, extVars>>
  \/ \E answer \in {"confirm", "cancel", "dismiss"}, fails \in [1..MaxCalls -> BOOLEAN] :
       Decide(answer, fails) /\ UNCHANGED <<idxVars, gwVars, docVars, extVars>>
  \/ ResponseTaken /\ UNCHANGED <<idxVars, gwVars, docVars, extVars>>

(***************************************************************************)
(* processResponse on long responses: up to MaxParsed calls, each either   *)
(* an unknown tool or a read of the note.                                  *)
(***************************************************************************)
LongCalls ==
  {[name |-> "bogus_tool", arguments |-> [kind |-> "object", path |-> Absent, force |-> FALSE]],
   [name |-> "get_note_content",
    arguments |-> [kind |-> "object", path |-> StringArg(NotePath), force |-> FALSE]]}

LongCallLists == SeqsUpTo(LongCalls, MaxParsed)

InitCap ==
  /\ vault = {[path |-> NotesFolder, type |-> "folder"], [path |-> NoteFile, type |-> "file"]}
  /\ config = [enabled |-> TRUE, requireConfirmation |-> FALSE]
  /\ pr = NoResponse
  \* the other subsystems stay as constructed
  /\ isIndexing = FALSE
  /\ circuitBroken = FALSE
  /\ consecutiveErrors = 0
  /\ indexQueue = <<>>
  /\ progress = FALSE
  /\ timerPending = FALSE
  /\ runs = [r \in Runs |-> NoRun]
  /\ store = [p \in Files |-> 0]
  /\ tripped = FALSE
  /\ endpoints = [e \in EndpointIds |-> [enabled |-> FALSE, priority |-> 0]]
  /\ providers = {}
  /\ providerStatus = [e \in EndpointIds |-> "none"]
  /\ call = NoCall
  /\ records = [c \in ChunkIndexes |-> NoRecord]
  /\ single = [d \in Singles |-> NoSingle]
  /\ nextVersion = 1
  /\ modal = NoModal
  /\ content = [p \in Files |-> 0]
  /\ rerun = NoRerun
  /\ pathRecords = [p \in Paths |-> {}]
  /\ upd = NoUpdate
  /\ writer = NoWriter
  /\ limiter = NoLimiter
  /\ embedCalls = [s \in Sites |-> NoEmbedCall]
  /\ srch = NoSearch
  /\ req = NoRequest
  /\ listing = NoListing
  /\ parse = NoParse
  /\ part = 0

NextCap ==
  \/ \E en \in BOOLEAN, rc \in BOOLEAN : updateConfig(en, rc) /\ UNCHANGED <<idxVars, gwVars, docVars, extVars>>
  \/ \E parsed \in LongCallLists :
       processResponse(parsed, [k \in 1..MaxParsed |-> FALSE]) /\ UNCHANGED <<idxVars, gwVars, docVars, extVars>>
  \/ ResponseTaken /\ UNCHANGED <<idxVars, gwVars, docVars, extVars>>

(***************************************************************************)
(* ToolConfirmationModal and requestConfirmation, ToolManager.ts lines     *)
(* 54-125 and 263-272.                                                     *)
(***************************************************************************)
\* requestConfirmation, lines 263-272: a new modal, opened, and its promise
OpenedModal == [NoModal EXCEPT !.state = "open"]

\* () => resolve(true), line 268: a promise keeps its first settlement
onConfirm(md) ==
  [md EXCEPT !.calls = @ + 1, !.value = IF @ = "pending" THEN "true" ELSE @]

\* () => resolve(false), line 269
onCancel(md) ==
  [md EXCEPT !.calls = @ + 1, !.value = IF @ = "pending" THEN "false" ELSE @]

onClose_Silent(md) == [md EXCEPT !.state = "closed"]

\* onClose, lines 116-125, which the host runs when the modal closes
onClose(md) ==
  [(IF ~md.resolved THEN onCancel(md) ELSE md) EXCEPT !.state = "closed"]

\* the click listener of the Cancel button, lines 99-103
ClickCancel ==
  /\ modal.state = "open"
  /\ modal' = onClose(onCancel([modal EXCEPT !.resolved = TRUE, !.event = "cancel"]))
  /\ UNCHANGED toolVars

\* the click listener of the Confirm button, lines 109-113
ClickConfirm ==
  /\ modal.state = "open"
  /\ modal' = onClose(onConfirm([modal EXCEPT !.resolved = TRUE, !.event = "confirm"]))
  /\ UNCHANGED toolVars

\* the modal is closed without a button: Escape, a click outside
Dismiss ==
  /\ modal.state = "open"
  /\ modal' = onClose([modal EXCEPT !.event = "dismiss"])
  /\ UNCHANGED toolVars

\* processResponse up to its first suspension; when it suspends, it is in
\* requestConfirmation, line 223, with the modal open
ModalResponse(parsed, fails) ==
  /\ processResponse(parsed, fails)
  /\ modal' = IF pr'.phase = "confirm" THEN OpenedModal ELSE NoModal

\* the promise of requestConfirmation is settled: the await of line 223
\* returns its value into `confirmed`
AwaitReturns ==
  /\ modal.state = "closed" /\ modal.value # "pending"
  /\ modal' = [modal EXCEPT !.state = "resumed"]
  /\ UNCHANGED toolVars

\* processResponse goes on from line 224 with `confirmed`, up to the next
\* suspension
Resumed(fails) ==
  /\ modal.state = "resumed"
  /\ Decide(IF modal.value = "true" THEN "confirm"
            ELSE IF modal.event = "dismiss" THEN "dismiss" ELSE "cancel", fails)
  /\ modal' = IF pr'.phase = "confirm" THEN OpenedModal ELSE NoModal

ModalCalls ==
  {[name |-> "delete_note",
    arguments |-> [kind |-> "object", path |-> StringArg(NotePath), force |-> FALSE]],
   [name |-> "delete_folder",
    arguments |-> [kind |-> "object", path |-> StringArg(NotesFolder), force |-> FALSE]],
   [name |-> "get_note_content",
    arguments |-> [kind |-> "object", path |-> StringArg(NotePath), force |-> FALSE]]}

ModalCallLists == SeqsUpTo(ModalCalls, MaxCalls)

InitModal ==
  /\ vault = {[path |-> NotesFolder, type |-> "folder"], [path |-> NoteFile, type |-> "file"]}
  /\ config = [enabled |-> TRUE, requireConfirmation |-> TRUE]
  /\ pr = NoResponse
  /\ modal = NoModal
  \* the other subsystems stay as constructed
  /\ isIndexing = FALSE
  /\ circuitBroken = FALSE
  /\ consecutiveErrors = 0
  /\ indexQueue = <<>>
  /\ progress = FALSE
  /\ timerPending = FALSE
  /\ runs = [r \in Runs |-> NoRun]
  /\ store = [p \in Files |-> 0]
  /\ tripped = FALSE
  /\ endpoints = [e \in EndpointIds |-> [enabled |-> FALSE, priority |-> 0]]
  /\ providers = {}
  /\ providerStatus = [e \in EndpointIds |-> "none"]
  /\ call = NoCall
  /\ records = [c \in ChunkIndexes |-> NoRecord]
  /\ single = [d \in Singles |-> NoSingle]
  /\ nextVersion = 1
  /\ content = [p \in Files |-> 0]
  /\ rerun = NoRerun
  /\ pathRecords = [p \in Paths |-> {}]
  /\ upd = NoUpdate
  /\ writer = NoWriter
  /\ limiter = NoLimiter
  /\ embedCalls = [s \in Sites |-> NoEmbedCall]
  /\ srch = NoSearch
  /\ req = NoRequest
  /\ listing = NoListing
  /\ parse = NoParse
  /\ part = 0

ResumedStep == \E fails \in [1..MaxCalls -> BOOLEAN] : Resumed(fails)

NextModal ==
  \/ \E parsed \in ModalCallLists, fails \in [1..MaxCalls -> BOOLEAN] :
       ModalResponse(parsed, fails) /\ UNCHANGED <<idxVars, gwVars, docVars, notUi>>
  \/ ClickConfirm /\ UNCHANGED <<idxVars, gwVars, docVars, notUi>>
  \/ ClickCancel /\ UNCHANGED <<idxVars, gwVars, docVars, notUi>>
  \/ Dismiss /\ UNCHANGED <<idxVars, gwVars, docVars, notUi>>
  \/ AwaitReturns /\ UNCHANGED <<idxVars, gwVars, docVars, notUi>>
  \/ ResumedStep /\ UNCHANGED <<idxVars, gwVars, docVars, notUi>>
  \/ ResponseTaken /\ UNCHANGED <<idxVars, gwVars, docVars, extVars>>

(***************************************************************************)
(* indexSingleFile for one path, lines 477-574, with the store's           *)
(* deleteByPath and upsertBatch.                                           *)
(***************************************************************************)
\* the embedding at position j of the response to the batch starting at chunk
\* i of a version
Embedding(version, i, j) == <<version, i, j>>

\* lines 549-561: the documents of one batch, by position in the batch and in
\* the response, which holds count embeddings
BatchDocuments(version, i, len, count) ==
  [j \in 1..Min(len, count) |->
     [index |-> i + j - 1, version |-> version, embedding |-> Embedding(version, i, j - 1)]]

\* upsertBatch, part_009 lines 147-193: put every document under its id
Put(rs, docs) ==
  [c \in ChunkIndexes |->
     IF \E k \in 1..Len(docs) : docs[k].index = c
     THEN LET d == docs[CHOOSE k \in 1..Len(docs) : docs[k].index = c]
          IN [version |-> d.version, embedding |-> d.embedding]
     ELSE rs[c]]

\* indexFile, lines 141-148, and the loop bodies of the orchestrator: an
\* activation reads the document as it is then, a version of its own with n
\* chunks
StartSingle(d, n, batchSize) ==
  /\ single[d].pc = "idle"
  /\ nextVersion <= MaxVersions
  /\ single' = [single EXCEPT ![d] = [NoSingle EXCEPT !.pc = "getByPath", !.n = n,
                                       !.version = nextVersion, !.batchSize = batchSize]]
  /\ nextVersion' = nextVersion + 1
  /\ UNCHANGED records

\* deleteByPath, part_009 lines 247-251: getByPath has settled
GetByPathDone(d) ==
  /\ single[d].pc = "getByPath"
  /\ single' = [single EXCEPT ![d].pc = "delete",
                              ![d].found = {c \in ChunkIndexes : records[c] # NoRecord}]
  /\ UNCHANGED <<records, nextVersion>>

\* deleteByPath, part_009 lines 252-282: the delete transaction has settled;
\* then lines 496-534 of indexSingleFile
DeleteDone(d, ok, stopped) ==
  /\ single[d].pc = "delete"
  /\ IF ~ok
     THEN /\ single' = [single EXCEPT ![d].pc = "failed"]
          /\ UNCHANGED records
     ELSE /\ records' = [c \in ChunkIndexes |->
                           IF c \in single[d].found THEN NoRecord ELSE records[c]]
          /\ single' = [single EXCEPT ![d].pc = IF single[d].n = 0 THEN "done"
                                                ELSE IF stopped THEN "failed"
                                                ELSE "embed"]
  /\ UNCHANGED nextVersion

\* providerManager.embed has settled with count embeddings, lines 541-566;
\* then the next batch, lines 513-534, or upsertBatch, line 571
EmbedSettled(d, ok, count, stopped) ==
  /\ single[d].pc = "embed"
  /\ LET len == Min(single[d].batchSize, single[d].n - single[d].i)
         docs == single[d].documents \o BatchDocuments(single[d].version, single[d].i, len, count)
         next == single[d].i + single[d].batchSize
     IN /\ count <= len
        /\ single' = IF ~ok THEN [single EXCEPT ![d].pc = "failed"]
                     ELSE IF next >= single[d].n
                     THEN [single EXCEPT ![d].documents = docs, ![d].pc = "upsert"]
                     ELSE IF stopped THEN [single EXCEPT ![d].pc = "failed"]
                     ELSE [single EXCEPT ![d].documents = docs, ![d].i = next]
  /\ UNCHANGED <<records, nextVersion>>

\* upsertBatch has settled, lines 571-574
UpsertSettled(d, ok) ==
  /\ single[d].pc = "upsert"
  /\ IF ok
     THEN /\ records' = Put(records, single[d].documents)
          /\ single' = [single EXCEPT ![d].pc = "done"]
     ELSE /\ single' = [single EXCEPT ![d].pc = "failed"]
          /\ UNCHANGED records
  /\ UNCHANGED nextVersion

\* the caller has seen indexSingleFile settle
SingleSettled(d) ==
  /\ single[d].pc \in {"done", "failed"}
  /\ single' = [single EXCEPT ![d] = NoSingle]
  /\ UNCHANGED <<records, nextVersion>>

InitDoc ==
  /\ records = [c \in ChunkIndexes |-> NoRecord]
  /\ single = [d \in Singles |-> NoSingle]
  /\ nextVersion = 1
  \* the other subsystems stay as constructed
  /\ isIndexing = FALSE
  /\ circuitBroken = FALSE
  /\ consecutiveErrors = 0
  /\ indexQueue = <<>>
  /\ progress = FALSE
  /\ timerPending = FALSE
  /\ runs = [r \in Runs |-> NoRun]
  /\ store = [p \in Files |-> 0]
  /\ tripped = FALSE
  /\ endpoints = [e \in EndpointIds |-> [enabled |-> FALSE, priority |-> 0]]
  /\ providers = {}
  /\ providerStatus = [e \in EndpointIds |-> "none"]
  /\ call = NoCall
  /\ vault = {}
  /\ config = [enabled |-> FALSE, requireConfirmation |-> FALSE]
  /\ pr = NoResponse
  /\ modal = NoModal
  /\ content = [p \in Files |-> 0]
  /\ rerun = NoRerun
  /\ pathRecords = [p \in Paths |-> {}]
  /\ upd = NoUpdate
  /\ writer = NoWriter
  /\ limiter = NoLimiter
  /\ embedCalls = [s \in Sites |-> NoEmbedCall]
  /\ srch = NoSearch
  /\ req = NoRequest
  /\ listing = NoListing
  /\ parse = NoParse
  /\ part = 0

NextDoc ==
  \/ \E d \in Singles, n \in 0..MaxChunks, batchSize \in 1..MaxChunks :
       StartSingle(d, n, batchSize) /\ UNCHANGED <<idxVars, gwVars, toolVars, extVars>>
  \/ \E d \in Singles : GetByPathDone(d) /\ UNCHANGED <<idxVars, gwVars, toolVars, extVars>>
  \/ \E d \in Singles, ok \in BOOLEAN, stopped \in BOOLEAN :
       DeleteDone(d, ok, stopped) /\ UNCHANGED <<idxVars, gwVars, toolVars, extVars>>
  \/ \E d \in Singles, ok \in BOOLEAN, count \in 0..MaxChunks, stopped \in BOOLEAN :
       EmbedSettled(d, ok, count, stopped) /\ UNCHANGED <<idxVars, gwVars, toolVars, extVars>>
  \/ \E d \in Singles, ok \in BOOLEAN : UpsertSettled(d, ok) /\ UNCHANGED <<idxVars, gwVars, toolVars, extVars>>
  \/ \E d \in Singles : SingleSettled(d) /\ UNCHANGED <<idxVars, gwVars, toolVars, extVars>>

(***************************************************************************)
(* A rename: updatePath(oldPath, newPath) of the vector store, part_009     *)
(* lines 287-335, called un-awaited by the rename handler of main.ts lines *)
(* 321-328, next to the store calls of an indexSingleFile on either path.  *)
(* pathRecords[p] is the set of chunk indexes i with a record p#i. Every   *)
(* IndexedDB transaction is one step.                                      *)
(***************************************************************************)
\* IndexedDB starts the transactions over the one object store in the order
\* of their creation. Each of the two callers has at most one transaction
\* pending; behind tells that the other caller's was created first.
UpdPending == upd.pc \in {"getByPath", "transaction"}

WriterPending == writer.pc \in {"getByPath", "delete", "upsert"}

\* updatePath up to its await: ensureInitialized and the call of getByPath
updatePath ==
  /\ upd.pc = "idle"
  /\ upd' = [upd EXCEPT !.pc = "getByPath", !.behind = WriterPending]
  /\ UNCHANGED <<pathRecords, writer>>

\* line 291-292: getByPath(oldPath) resolves with the records of that moment;
\* nothing to rename ends the call, else the readwrite transaction is created
UpdGetByPathDone ==
  /\ upd.pc = "getByPath" /\ ~upd.behind
  /\ upd' = IF pathRecords["old"] = {}
            THEN [pc |-> "done", docs |-> {}, behind |-> FALSE]
            ELSE [pc |-> "transaction", docs |-> pathRecords["old"],
                  behind |-> WriterPending]
  /\ writer' = [writer EXCEPT !.behind = FALSE]
  /\ UNCHANGED pathRecords

\* lines 295-333: one readwrite transaction deletes doc.id and puts
\* newPath#doc.chunkIndex for every doc of the array read before
UpdTransactionDone ==
  /\ upd.pc = "transaction" /\ ~upd.behind
  /\ pathRecords' = [pathRecords EXCEPT !["old"] = @ \ upd.docs,
                                        !["new"] = @ \cup upd.docs]
  /\ upd' = [upd EXCEPT !.pc = "done"]
  /\ writer' = [writer EXCEPT !.behind = FALSE]

\* indexSingleFile(file) reaches deleteByPath(file.path) with its chunks (line
\* 505); file.path is the old path until the rename event has fired and the
\* new path from then on
WriterStart(path, documents) ==
  /\ writer.pc = "idle"
  /\ path = "new" <=> upd.pc # "idle"
  /\ writer' = [pc |-> "getByPath", path |-> path, found |-> {},
                documents |-> documents, behind |-> UpdPending]
  /\ UNCHANGED <<pathRecords, upd>>

\* deleteByPath line 250: getByPath resolves, the delete transaction is created
WriterGetByPathDone ==
  /\ writer.pc = "getByPath" /\ ~writer.behind
  /\ writer' = [writer EXCEPT !.pc = "delete", !.found = pathRecords[writer.path],
                              !.behind = UpdPending]
  /\ upd' = [upd EXCEPT !.behind = FALSE]
  /\ UNCHANGED pathRecords

\* deleteByPath lines 252-281: the delete transaction; the embedding requests
\* of lines 513-566 follow
WriterDeleteDone ==
  /\ writer.pc = "delete" /\ ~writer.behind
  /\ pathRecords' = [pathRecords EXCEPT ![writer.path] = @ \ writer.found]
  /\ writer' = [writer EXCEPT !.pc = "embed"]
  /\ upd' = [upd EXCEPT !.behind = FALSE]

\* lines 549-571: the embeddings are there, the documents get the id
\* file.path#index and upsertBatch creates its transaction. file.path is read
\* again here, batch by batch: after a rename in between, the documents carry
\* the path read before (batches embedded before the rename, or a file object
\* the host did not update) or the new one.
WriterEmbedDone(path) ==
  /\ writer.pc = "embed"
  /\ path = writer.path \/ (path = "new" /\ upd.pc # "idle")
  /\ writer' = [writer EXCEPT !.pc = "upsert", !.path = path, !.behind = UpdPending]
  /\ UNCHANGED <<pathRecords, upd>>

\* upsertBatch lines 147-193: the put transaction
WriterUpsertDone ==
  /\ writer.pc = "upsert" /\ ~writer.behind
  /\ pathRecords' = [pathRecords EXCEPT ![writer.path] = @ \cup writer.documents]
  /\ writer' = NoWriter
  /\ upd' = [upd EXCEPT !.behind = FALSE]

InitRename ==
  /\ isIndexing = FALSE
  /\ circuitBroken = FALSE
  /\ consecutiveErrors = 0
  /\ indexQueue = <<>>
  /\ progress = FALSE
  /\ timerPending = FALSE
  /\ runs = [r \in Runs |-> NoRun]
  /\ store = [p \in Files |-> 0]
  /\ tripped = FALSE
  /\ endpoints = [e \in EndpointIds |-> [enabled |-> FALSE, priority |-> 0]]
  /\ providers = {}
  /\ providerStatus = [e \in EndpointIds |-> "none"]
  /\ call = NoCall
  /\ vault = {}
  /\ config = [enabled |-> FALSE, requireConfirmation |-> FALSE]
  /\ pr = NoResponse
  /\ records = [c \in ChunkIndexes |-> NoRecord]
  /\ single = [d \in Singles |-> NoSingle]
  /\ nextVersion = 1
  /\ modal = NoModal
  /\ content = [p \in Files |-> 0]
  /\ rerun = NoRerun
  /\ pathRecords \in {f \in [Paths -> SUBSET ChunkIndexes] : f["new"] = {}}
  /\ upd = NoUpdate
  /\ writer = NoWriter
  /\ limiter = NoLimiter
  /\ embedCalls = [s \in Sites |-> NoEmbedCall]
  /\ srch = NoSearch
  /\ req = NoRequest
  /\ listing = NoListing
  /\ parse = NoParse
  /\ part = 0

NextRename ==
  \/ updatePath /\ UNCHANGED <<idxVars, gwVars, toolVars, docVars, notRen>>
  \/ UpdGetByPathDone /\ UNCHANGED <<idxVars, gwVars, toolVars, docVars, notRen>>
  \/ UpdTransactionDone /\ UNCHANGED <<idxVars, gwVars, toolVars, docVars, notRen>>
  \/ \E path \in Paths, documents \in SUBSET ChunkIndexes \ {{}} :
       WriterStart(path, documents) /\ UNCHANGED <<idxVars, gwVars, toolVars, docVars, notRen>>
  \/ WriterGetByPathDone /\ UNCHANGED <<idxVars, gwVars, toolVars, docVars, notRen>>
  \/ WriterDeleteDone /\ UNCHANGED <<idxVars, gwVars, toolVars, docVars, notRen>>
  \/ \E path \in Paths : WriterEmbedDone(path) /\ UNCHANGED <<idxVars, gwVars, toolVars, docVars, notRen>>
  \/ WriterUpsertDone /\ UNCHANGED <<idxVars, gwVars, toolVars, docVars, notRen>>

(***************************************************************************)
(* The token bucket of the orchestrator (part_007) and the call sites of   *)
(* providerManager.embed: indexSingleFile (EmbeddingManager.ts line 541),  *)
(* retrieveContext and search of the RAG pipeline (part_006 lines 148,     *)
(* 335), findSimilarNotes of the organizer (part_011 line 160). Tokens are *)
(* counted in whole tokens; gen tells the RateLimiter objects apart.       *)
(***************************************************************************)
\* line 23: Math.max(1, requestsPerMinute)
maxTokens(requestsPerMinute) == IF requestsPerMinute > 1 THEN requestsPerMinute ELSE 1

\* new RateLimiter(requestsPerMinute), lines 22-27
RateLimiter(gen, requestsPerMinute) ==
  [gen |-> gen, rpm |-> requestsPerMinute, tokens |-> maxTokens(requestsPerMinute)]

\* EmbeddingManager.updateSettings line 84: a new bucket replaces the old one
RateUpdateSettings(rpm) ==
  /\ limiter.gen < MaxBuckets
  /\ limiter' = RateLimiter(limiter.gen + 1, rpm)
  /\ UNCHANGED embedCalls

\* refill, lines 80-87, once the time of one token has passed
refill ==
  /\ limiter.rpm > 0
  /\ limiter.tokens < maxTokens(limiter.rpm)
  /\ limiter' = [limiter EXCEPT !.tokens = @ + 1]
  /\ UNCHANGED embedCalls

\* indexSingleFile line 526: this.rateLimiter.acquire(), lines 32-53, takes a
\* token or arms its timer
acquire ==
  /\ embedCalls["index"].pc = "idle"
  /\ IF limiter.tokens >= 1
     THEN /\ limiter' = [limiter EXCEPT !.tokens = @ - 1]
          /\ embedCalls' = [embedCalls EXCEPT !["index"] =
                              [pc |-> "passed", acquired |-> limiter.gen]]
     ELSE /\ limiter' = limiter
          /\ embedCalls' = [embedCalls EXCEPT !["index"] =
                              [pc |-> "waiting", acquired |-> limiter.gen]]

\* lines 45-51: the timer of acquire fires, at most 2 s later and so before
\* the 5 s timer of indexSingleFile line 528; it takes a token of its own
\* bucket if there is one and resolves anyway
AcquireTimer ==
  /\ embedCalls["index"].pc = "waiting"
  /\ limiter' = IF embedCalls["index"].acquired = limiter.gen /\ limiter.tokens >= 1
                THEN [limiter EXCEPT !.tokens = @ - 1] ELSE limiter
  /\ embedCalls' = [embedCalls EXCEPT !["index"].pc = "passed"]

\* indexSingleFile line 541: the request goes to the gateway
IndexEmbed ==
  /\ embedCalls["index"].pc = "passed"
  /\ embedCalls' = [embedCalls EXCEPT !["index"].pc = "sent"]
  /\ UNCHANGED limiter

\* retrieveContext / search (part_006 lines 148, 335) and findSimilarNotes
\* (part_011 line 160): the request goes to the gateway
LookupEmbed(site) ==
  /\ site # "index"
  /\ embedCalls[site].pc = "idle"
  /\ embedCalls' = [embedCalls EXCEPT ![site] = [pc |-> "sent", acquired |-> 0]]
  /\ UNCHANGED limiter

\* the gateway answers
EmbedAnswered(site) ==
  /\ embedCalls[site].pc = "sent"
  /\ embedCalls' = [embedCalls EXCEPT ![site] = NoEmbedCall]
  /\ UNCHANGED limiter

InitRate ==
  /\ isIndexing = FALSE
  /\ circuitBroken = FALSE
  /\ consecutiveErrors = 0
  /\ indexQueue = <<>>
  /\ progress = FALSE
  /\ timerPending = FALSE
  /\ runs = [r \in Runs |-> NoRun]
  /\ store = [p \in Files |-> 0]
  /\ tripped = FALSE
  /\ endpoints = [e \in EndpointIds |-> [enabled |-> FALSE, priority |-> 0]]
  /\ providers = {}
  /\ providerStatus = [e \in EndpointIds |-> "none"]
  /\ call = NoCall
  /\ vault = {}
  /\ config = [enabled |-> FALSE, requireConfirmation |-> FALSE]
  /\ pr = NoResponse
  /\ records = [c \in ChunkIndexes |-> NoRecord]
  /\ single = [d \in Singles |-> NoSingle]
  /\ nextVersion = 1
  /\ modal = NoModal
  /\ content = [p \in Files |-> 0]
  /\ rerun = NoRerun
  /\ pathRecords = [p \in Paths |-> {}]
  /\ upd = NoUpdate
  /\ writer = NoWriter
  /\ limiter \in {RateLimiter(1, rpm) : rpm \in 0..MaxRpm}
  /\ embedCalls = [s \in Sites |-> NoEmbedCall]
  /\ srch = NoSearch
  /\ req = NoRequest
  /\ listing = NoListing
  /\ parse = NoParse
  /\ part = 0

NextRate ==
  \/ \E rpm \in 0..MaxRpm : RateUpdateSettings(rpm) /\ UNCHANGED <<idxVars, gwVars, toolVars, docVars, notRate>>
  \/ refill /\ UNCHANGED <<idxVars, gwVars, toolVars, docVars, notRate>>
  \/ acquire /\ UNCHANGED <<idxVars, gwVars, toolVars, docVars, notRate>>
  \/ AcquireTimer /\ UNCHANGED <<idxVars, gwVars, toolVars, docVars, notRate>>
  \/ IndexEmbed /\ UNCHANGED <<idxVars, gwVars, toolVars, docVars, notRate>>
  \/ \E site \in Sites : LookupEmbed(site) /\ UNCHANGED <<idxVars, gwVars, toolVars, docVars, notRate>>
  \/ \E site \in Sites : EmbedAnswered(site) /\ UNCHANGED <<idxVars, gwVars, toolVars, docVars, notRate>>

(***************************************************************************)
(* VectorStore.search, part_009 lines 373-413, with cosineSimilarity,      *)
(* lines 577-600. Embeddings are integer vectors whose norm is an integer; *)
(* a score is the cosine times ScoreScale, which is exact for them.        *)
(***************************************************************************)
Embeddings == {<<1, 0>>, <<0, 1>>, <<-1, 0>>, <<3, 4>>, <<0, 0>>}

\* the product of two norms of Embeddings divides it
ScoreScale == 5 * 5

\* Math.sqrt on the squares that occur
Sqrt(x) == CHOOSE n \in 0..x : n * n = x

RECURSIVE Dot(_, _)
Dot(a, b) == IF a = <<>> THEN 0 ELSE Head(a) * Head(b) + Dot(Tail(a), Tail(b))

\* lines 577-600, for vectors of one dimension
cosineSimilarity(a, b) ==
  LET normA == Sqrt(Dot(a, a))
      normB == Sqrt(Dot(b, b))
  IN  IF normA = 0 \/ normB = 0 THEN 0
      ELSE (Dot(a, b) * ScoreScale) \div (normA * normB)

InsertAt(s, k, x) == SubSeq(s, 1, k) \o <<x>> \o SubSeq(s, k + 1, Len(s))

\* results.push(x); results.sort(ascending): the sort is stable, x goes
\* behind the entries that do not score more
PushSorted(results, x) ==
  InsertAt(results, Cardinality({k \in DOMAIN results : results[k].score <= x.score}), x)

\* results[0] = x; results.sort(ascending): x goes before the entries that
\* do not score less
ReplaceSorted(results, x) ==
  LET rest == Tail(results)
  IN  InsertAt(rest, Cardinality({k \in DOMAIN rest : rest[k].score < x.score}), x)

\* line 411: results.sort(descending), stable
RECURSIVE SortDescending(_)
SortDescending(s) ==
  IF s = <<>> THEN <<>>
  ELSE LET sorted == SortDescending(SubSeq(s, 1, Len(s) - 1))
           x == s[Len(s)]
       IN  InsertAt(sorted, Cardinality({k \in DOMAIN sorted : sorted[k].score >= x.score}), x)

\* the admission test of line 393
Admit(score, minScore) == score >= minScore

\* lines 386-401 from record i on; results[0].score of an empty array is a
\* TypeError
RECURSIVE SearchLoop(_, _, _, _, _, _)
SearchLoop(docs, q, topK, minScore, i, results) ==
  IF i > Len(docs) THEN [threw |-> FALSE, results |-> SortDescending(results)]
  ELSE LET x == [document |-> i, score |-> cosineSimilarity(q, docs[i])]
       IN  IF ~Admit(x.score, minScore)
           THEN SearchLoop(docs, q, topK, minScore, i + 1, results)
           ELSE IF Len(results) < topK
           THEN SearchLoop(docs, q, topK, minScore, i + 1, PushSorted(results, x))
           ELSE IF results = <<>>
           THEN [threw |-> TRUE, results |-> <<>>]
           ELSE IF x.score > results[1].score
           THEN SearchLoop(docs, q, topK, minScore, i + 1, ReplaceSorted(results, x))
           ELSE SearchLoop(docs, q, topK, minScore, i + 1, results)

\* search(queryEmbedding, topK, 0) over the records the store holds
search ==
  /\ srch.pc = "idle"
  /\ LET out == SearchLoop(srch.docs, srch.queryEmbedding, srch.topK, 0, 1, <<>>)
     IN  srch' = [srch EXCEPT !.pc = "done", !.threw = out.threw, !.results = out.results]

InitSearch ==
  /\ isIndexing = FALSE
  /\ circuitBroken = FALSE
  /\ consecutiveErrors = 0
  /\ indexQueue = <<>>
  /\ progress = FALSE
  /\ timerPending = FALSE
  /\ runs = [r \in Runs |-> NoRun]
  /\ store = [p \in Files |-> 0]
  /\ tripped = FALSE
  /\ endpoints = [e \in EndpointIds |-> [enabled |-> FALSE, priority |-> 0]]
  /\ providers = {}
  /\ providerStatus = [e \in EndpointIds |-> "none"]
  /\ call = NoCall
  /\ vault = {}
  /\ config = [enabled |-> FALSE, requireConfirmation |-> FALSE]
  /\ pr = NoResponse
  /\ records = [c \in ChunkIndexes |-> NoRecord]
  /\ single = [d \in Singles |-> NoSingle]
  /\ nextVersion = 1
  /\ modal = NoModal
  /\ content = [p \in Files |-> 0]
  /\ rerun = NoRerun
  /\ pathRecords = [p \in Paths |-> {}]
  /\ upd = NoUpdate
  /\ writer = NoWriter
  /\ limiter = NoLimiter
  /\ embedCalls = [s \in Sites |-> NoEmbedCall]
  /\ srch \in {[NoSearch EXCEPT !.docs = d, !.queryEmbedding = q, !.topK = k] :
                 d \in SeqsUpTo(Embeddings, MaxDocs), q \in Embeddings, k \in 0..MaxTopK}
  /\ req = NoRequest
  /\ listing = NoListing
  /\ parse = NoParse
  /\ part = 0

NextSearch ==
  \/ search /\ UNCHANGED <<idxVars, gwVars, toolVars, docVars, notSrch>>

(***************************************************************************)
(* One outbound chat or embed call of a provider: request and wrapError   *)
(* of the Ollama provider (part_002 lines 339-467) and of the OpenAI       *)
(* provider (part_003 lines 705-847). Error messages are sequences of      *)
(* one-character strings.                                                  *)
(***************************************************************************)
Providers == {"ollama", "openai"}

Operations == {"chat", "embed"}

\* this.timeoutMs, as its decimal digits
TimeoutDigits == {<<"1", "0", "0", "0">>, <<"3", "0", "0", "0", "0">>}

\* part_002 line 348, part_003 line 714: the message of the timer's rejection
TimedOutPrefix ==
  <<"R", "e", "q", "u", "e", "s", "t", " ", "t", "i", "m", "e", "d", " ",
  "o", "u", "t", " ", "a", "f", "t", "e", "r", " ">>

TimedOutMessage(timeoutMs) == TimedOutPrefix \o timeoutMs \o <<"m", "s">>

\* what the host's fetch rejects with when its signal is aborted
AbortMessageA ==
  <<"T", "h", "e", " ", "u", "s", "e", "r", " ", "a", "b", "o", "r", "t",
  "e", "d", " ", "a", " ", "r", "e", "q", "u", "e", "s", "t", ".">>

AbortMessageB ==
  <<"s", "i", "g", "n", "a", "l", " ", "i", "s", " ", "a", "b", "o", "r",
  "t", "e", "d", " ", "w", "i", "t", "h", "o", "u", "t", " ", "r", "e", "a",
  "s", "o", "n">>

AbortMessages == {AbortMessageA, AbortMessageB}

\* what requestUrl and fetch reject with when the connection fails
RefusedMessage ==
  <<"n", "e", "t", ":", ":", "E", "R", "R", "_", "C", "O", "N", "N", "E",
  "C", "T", "I", "O", "N", "_", "R", "E", "F", "U", "S", "E", "D">>

FailedToFetchMessage ==
  <<"F", "a", "i", "l", "e", "d", " ", "t", "o", " ", "f", "e", "t", "c",
  "h">>

TransportMessages == {RefusedMessage, FailedToFetchMessage}

Statuses == {200, 400, 401, 404, 408, 429, 500}

\* types.ts lines 154-171
httpStatusToErrorCode(status) ==
  CASE status \in {401, 403} -> "AUTHENTICATION_FAILED"
    [] status = 404 -> "MODEL_NOT_FOUND"
    [] status = 429 -> "RATE_LIMITED"
    [] status = 408 -> "TIMEOUT"
    [] status = 400 -> "INVALID_REQUEST"
    [] OTHER -> IF status >= 500 THEN "SERVER_ERROR" ELSE "UNKNOWN"

\* the test of wrapError for a timeout, part_002 line 452, part_003 line 823
MentionsTimeout(message) == includes(message, <<"t", "i", "m", "e", "o", "u", "t">>)

\* wrapError on an Error that is no ProviderError: part_002 lines 441-466,
\* part_003 lines 812-846
wrapError(provider, message) ==
  IF includes(message, <<"n", "e", "t", ":", ":", "E", "R", "R">>) \/ includes(message, <<"f", "e", "t", "c", "h">>)
  THEN "CONNECTION_FAILED"
  ELSE IF MentionsTimeout(message) THEN "TIMEOUT"
  ELSE IF /\ provider = "openai"
          /\ \/ includes(message, <<"4", "0", "1">>)
             \/ includes(message, <<"4", "0", "3">>)
             \/ includes(message, <<"u", "n", "a", "u", "t", "h", "o", "r", "i", "z", "e", "d">>)
  THEN "AUTHENTICATION_FAILED"
  ELSE "UNKNOWN"

\* chat / embed call this.request(url, body)
Send(provider, operation, useNativeFetch, timeoutMs) ==
  /\ req.pc = "idle"
  /\ req' = [NoRequest EXCEPT !.pc = "pending", !.provider = provider,
                              !.operation = operation,
                              !.useNativeFetch = useNativeFetch,
                              !.timeoutMs = timeoutMs]

\* the configured timeout elapses first: the timer of request rejects the
\* race (line 348), or, with native fetch, aborts the controller (line 385)
\* and fetch rejects; the catch of chat / embed throws wrapError(error)
TimeoutElapses(message) ==
  /\ req.pc = "pending"
  /\ IF req.useNativeFetch THEN message \in AbortMessages
     ELSE message = TimedOutMessage(req.timeoutMs)
  /\ req' = [req EXCEPT !.pc = "settled", !.cause = "timeout",
                        !.code = wrapError(req.provider, message)]

\* the server answers in time: a status of 400 or more is thrown as a
\* ProviderError, which wrapError returns as it is
Responds(status) ==
  /\ req.pc = "pending"
  /\ req' = [req EXCEPT !.pc = "settled", !.cause = "response",
                        !.code = IF status >= 400 THEN httpStatusToErrorCode(status)
                                 ELSE "none"]

\* the connection fails in time
TransportFails(message) ==
  /\ req.pc = "pending"
  /\ req' = [req EXCEPT !.pc = "settled", !.cause = "transport",
                        !.code = wrapError(req.provider, message)]

\* the caller has the outcome
RequestTaken ==
  /\ req.pc = "settled"
  /\ req' = NoRequest

InitRequest ==
  /\ isIndexing = FALSE
  /\ circuitBroken = FALSE
  /\ consecutiveErrors = 0
  /\ indexQueue = <<>>
  /\ progress = FALSE
  /\ timerPending = FALSE
  /\ runs = [r \in Runs |-> NoRun]
  /\ store = [p \in Files |-> 0]
  /\ tripped = FALSE
  /\ endpoints = [e \in EndpointIds |-> [enabled |-> FALSE, priority |-> 0]]
  /\ providers = {}
  /\ providerStatus = [e \in EndpointIds |-> "none"]
  /\ call = NoCall
  /\ vault = {}
  /\ config = [enabled |-> FALSE, requireConfirmation |-> FALSE]
  /\ pr = NoResponse
  /\ records = [c \in ChunkIndexes |-> NoRecord]
  /\ single = [d \in Singles |-> NoSingle]
  /\ nextVersion = 1
  /\ modal = NoModal
  /\ content = [p \in Files |-> 0]
  /\ rerun = NoRerun
  /\ pathRecords = [p \in Paths |-> {}]
  /\ upd = NoUpdate
  /\ writer = NoWriter
  /\ limiter = NoLimiter
  /\ embedCalls = [s \in Sites |-> NoEmbedCall]
  /\ srch = NoSearch
  /\ req = NoRequest
  /\ listing = NoListing
  /\ parse = NoParse
  /\ part = 0

NextRequest ==
  \/ \E provider \in Providers, operation \in Operations, useNativeFetch \in BOOLEAN,
        timeoutMs \in TimeoutDigits :
       Send(provider, operation, useNativeFetch, timeoutMs) /\ UNCHANGED <<idxVars, gwVars, toolVars, docVars, notReq>>
  \/ \E message \in AbortMessages \cup {TimedOutMessage(t) : t \in TimeoutDigits} :
       TimeoutElapses(message) /\ UNCHANGED <<idxVars, gwVars, toolVars, docVars, notReq>>
  \/ \E status \in Statuses : Responds(status) /\ UNCHANGED <<idxVars, gwVars, toolVars, docVars, notReq>>
  \/ \E message \in TransportMessages : TransportFails(message) /\ UNCHANGED <<idxVars, gwVars, toolVars, docVars, notReq>>
  \/ RequestTaken /\ UNCHANGED <<idxVars, gwVars, toolVars, docVars, notReq>>

(***************************************************************************)
(* ProviderManager.listModels, lines 289-306: list is the snapshot of      *)
(* getSortedProviders, i the provider being tried, outcome what the call   *)
(* ends with.                                                              *)
(***************************************************************************)
\* lines 290-294: no provider returns [] at once
listModels ==
  /\ listing.pc = "idle"
  /\ listing' = IF getSortedProviders = <<>>
                THEN [pc |-> "done", list |-> <<>>, i |-> 0, outcome |-> "empty"]
                ELSE [pc |-> "trying", list |-> getSortedProviders, i |-> 1,
                      outcome |-> "none"]
  /\ UNCHANGED gwVars

\* what listModels ends with once every provider of the list has failed,
\* line 305
AllFailedOutcome == "empty"

\* lines 296-303: provider.listModels() settles; a result is returned, a
\* failure is logged and the loop goes on
ListAttemptDone(ok) ==
  /\ listing.pc = "trying"
  /\ listing' = IF ok THEN [listing EXCEPT !.pc = "done", !.outcome = "models"]
                ELSE IF listing.i < Len(listing.list)
                THEN [listing EXCEPT !.i = @ + 1]
                ELSE [listing EXCEPT !.pc = "done", !.i = @ + 1,
                                     !.outcome = AllFailedOutcome]
  /\ UNCHANGED gwVars

\* the caller has taken the result
ListReturned ==
  /\ listing.pc = "done"
  /\ listing' = NoListing
  /\ UNCHANGED gwVars

InitList ==
  /\ \E en \in [EndpointIds -> BOOLEAN] :
       endpoints = [e \in EndpointIds |-> [enabled |-> en[e], priority |-> e - 1]]
  /\ providers = EnabledIds
  /\ providerStatus = [e \in EndpointIds |-> IF endpoints[e].enabled THEN "healthy" ELSE "none"]
  /\ call = NoCall
  /\ isIndexing = FALSE
  /\ circuitBroken = FALSE
  /\ consecutiveErrors = 0
  /\ indexQueue = <<>>
  /\ progress = FALSE
  /\ timerPending = FALSE
  /\ runs = [r \in Runs |-> NoRun]
  /\ store = [p \in Files |-> 0]
  /\ tripped = FALSE
  /\ vault = {}
  /\ config = [enabled |-> FALSE, requireConfirmation |-> FALSE]
  /\ pr = NoResponse
  /\ records = [c \in ChunkIndexes |-> NoRecord]
  /\ single = [d \in Singles |-> NoSingle]
  /\ nextVersion = 1
  /\ modal = NoModal
  /\ content = [p \in Files |-> 0]
  /\ rerun = NoRerun
  /\ pathRecords = [p \in Paths |-> {}]
  /\ upd = NoUpdate
  /\ writer = NoWriter
  /\ limiter = NoLimiter
  /\ embedCalls = [s \in Sites |-> NoEmbedCall]
  /\ srch = NoSearch
  /\ req = NoRequest
  /\ listing = NoListing
  /\ parse = NoParse
  /\ part = 0

NextList ==
  \/ \E e \in EndpointIds, v \in BOOLEAN : SetEnabled(e, v) /\ UNCHANGED listing /\ UNCHANGED <<idxVars, toolVars, docVars, notList>>
  \/ \E e \in EndpointIds, d \in {-1, 1} : moveEndpoint(e, d) /\ UNCHANGED listing /\ UNCHANGED <<idxVars, toolVars, docVars, notList>>
  \/ ProviderManager_updateSettings /\ UNCHANGED listing /\ UNCHANGED <<idxVars, toolVars, docVars, notList>>
  \/ listModels /\ UNCHANGED <<idxVars, toolVars, docVars, notList>>
  \/ \E ok \in BOOLEAN : ListAttemptDone(ok) /\ UNCHANGED <<idxVars, toolVars, docVars, notList>>
  \/ ListReturned /\ UNCHANGED <<idxVars, toolVars, docVars, notList>>

(***************************************************************************)
(* parseToolCalls, part_012 lines 1070-1142. A response is the sequence of *)
(* its pieces that a strategy can match: a fence tagged tool, a fence      *)
(* tagged json, an object in the text outside the fences. A piece holds a  *)
(* call (its tool and arguments, the callKey of the code) or text that is  *)
(* no tool call.                                                           *)
(***************************************************************************)
Strategies == <<"tool", "json", "inline">>

CallKeys == {"create_folder n", "get_note_content n/a"}

Segments == [strategy : {"tool", "json", "inline"}, call : CallKeys \cup {"none"}]

\* the matches of one strategy, in the order of the text: exec of the regex,
\* lines 1077 and 1100, findJsonToolCalls, line 1128
RECURSIVE Matches(_, _)
Matches(response, strategy) ==
  IF response = <<>> THEN <<>>
  ELSE IF Head(response).strategy = strategy
  THEN <<Head(response).call>> \o Matches(Tail(response), strategy)
  ELSE Matches(Tail(response), strategy)

\* the loop of one strategy, lines 1077-1096, 1100-1120, 1129-1139: a match
\* that is no tool call is skipped, a call whose key is in seenBlockCalls,
\* the one set of line 1072 that all three loops fill, is dropped
RECURSIVE MethodLoop(_, _)
MethodLoop(matches, acc) ==
  IF matches = <<>> THEN acc
  ELSE LET c == Head(matches)
       IN  IF c = "none" \/ c \in acc.seenBlockCalls
           THEN MethodLoop(Tail(matches), acc)
           ELSE MethodLoop(Tail(matches),
                           [seenBlockCalls |-> acc.seenBlockCalls \cup {c},
                            toolCalls |-> Append(acc.toolCalls, c)])

RECURSIVE Methods(_, _, _)
Methods(response, k, acc) ==
  IF k > Len(Strategies) THEN acc.toolCalls
  ELSE Methods(response, k + 1,
               MethodLoop(Matches(response, Strategies[k]), acc))

parseToolCalls(response) ==
  Methods(response, 1, [seenBlockCalls |-> {}, toolCalls |-> <<>>])

ParseResponse ==
  /\ parse.pc = "idle"
  /\ parse' = [parse EXCEPT !.pc = "done", !.toolCalls = parseToolCalls(parse.response)]

InitParse ==
  /\ isIndexing = FALSE
  /\ circuitBroken = FALSE
  /\ consecutiveErrors = 0
  /\ indexQueue = <<>>
  /\ progress = FALSE
  /\ timerPending = FALSE
  /\ runs = [r \in Runs |-> NoRun]
  /\ store = [p \in Files |-> 0]
  /\ tripped = FALSE
  /\ endpoints = [e \in EndpointIds |-> [enabled |-> FALSE, priority |-> 0]]
  /\ providers = {}
  /\ providerStatus = [e \in EndpointIds |-> "none"]
  /\ call = NoCall
  /\ vault = {}
  /\ config = [enabled |-> FALSE, requireConfirmation |-> FALSE]
  /\ pr = NoResponse
  /\ records = [c \in ChunkIndexes |-> NoRecord]
  /\ single = [d \in Singles |-> NoSingle]
  /\ nextVersion = 1
  /\ modal = NoModal
  /\ content = [p \in Files |-> 0]
  /\ rerun = NoRerun
  /\ pathRecords = [p \in Paths |-> {}]
  /\ upd = NoUpdate
  /\ writer = NoWriter
  /\ limiter = NoLimiter
  /\ embedCalls = [s \in Sites |-> NoEmbedCall]
  /\ srch = NoSearch
  /\ req = NoRequest
  /\ listing = NoListing
  /\ parse \in {[NoParse EXCEPT !.response = s] : s \in SeqsUpTo(Segments, MaxSegments)}
  /\ part = 0

NextParse ==
  \/ ParseResponse /\ UNCHANGED <<idxVars, gwVars, toolVars, docVars, notParse>>

(***************************************************************************)
(* The display content of processResponse, ToolManager.ts lines 180-201,   *)
(* with removeToolBlocks, part_012 lines 1227-1250. A response is a        *)
(* sequence of pieces:                                                     *)
(*   text          prose with no brace and no fence                        *)
(*   toolFence     ```tool {"tool": "t", "arguments": {..}} ```            *)
(*   jsonFence     ```json {"tool": "t", "arguments": {..}} ```            *)
(*   jsonOther     ```json {"a": 1} ```, a fence that is no tool call      *)
(*   inlineArgs    {"tool": "t", "arguments": {..}} in the prose           *)
(*   inlineNoArgs  {"tool": "t"} in the prose                              *)
(***************************************************************************)
Pieces == {"text", "toolFence", "jsonFence", "jsonOther", "inlineArgs", "inlineNoArgs"}

\* parseToolCalls finds a call in the piece: a fence whose body parses to an
\* object with a string "tool" (lines 1077-1120), an object of the prose
\* with a "tool" key, "arguments" being optional (lines 1148-1218, 1054-1061)
Detected(piece) == piece \in {"toolFence", "jsonFence", "inlineArgs", "inlineNoArgs"}

\* the piece holds the characters "tool":
HasToolKey(piece) == piece \in {"toolFence", "jsonFence", "inlineArgs", "inlineNoArgs"}

\* line 1229: /```(?:tool|json)\s*\{[\s\S]*?"tool"\s*:/ matches from a fence
\* tagged tool or json whose body opens with a brace, up to the next "tool":
\* wherever it stands, in this fence or behind it
ToolBlockAt(response, k) ==
  /\ response[k] \in {"toolFence", "jsonFence", "jsonOther"}
  /\ \E j \in k..Len(response) : HasToolKey(response[j])

\* line 1230: /\{\s*"tool"\s*:\s*"[^"]+"\s*,\s*"arguments"\s*:/ matches an
\* object that opens with "tool" followed by "arguments", in the prose or
\* inside a fence
InlineToolAt(response, k) == response[k] \in {"inlineArgs", "toolFence", "jsonFence"}

\* lines 1233-1241: the earliest of the two matches, or the end of the text
cutoffIndex(response) ==
  LET at == {k \in DOMAIN response : ToolBlockAt(response, k) \/ InlineToolAt(response, k)}
  IN  IF at = {} THEN Len(response) + 1
      ELSE CHOOSE k \in at : \A j \in at : k <= j

\* lines 1244-1249: the pieces before the cutoff
removeToolBlocks(response) == SubSeq(response, 1, cutoffIndex(response) - 1)

\* processResponse lines 182-201: the content it returns
DisplayContent(response, enabled) ==
  IF ~(\E k \in DOMAIN response : Detected(response[k])) \/ ~enabled
  THEN response
  ELSE removeToolBlocks(response)

Display ==
  /\ disp.pc = "idle"
  /\ part' = [disp EXCEPT !.pc = "done",
                          !.content = DisplayContent(disp.response, disp.enabled)]

InitDisplay ==
  /\ isIndexing = FALSE
  /\ circuitBroken = FALSE
  /\ consecutiveErrors = 0
  /\ indexQueue = <<>>
  /\ progress = FALSE
  /\ timerPending = FALSE
  /\ runs = [r \in Runs |-> NoRun]
  /\ store = [p \in Files |-> 0]
  /\ tripped = FALSE
  /\ endpoints = [e \in EndpointIds |-> [enabled |-> FALSE, priority |-> 0]]
  /\ providers = {}
  /\ providerStatus = [e \in EndpointIds |-> "none"]
  /\ call = NoCall
  /\ vault = {}
  /\ config = [enabled |-> FALSE, requireConfirmation |-> FALSE]
  /\ pr = NoResponse
  /\ records = [c \in ChunkIndexes |-> NoRecord]
  /\ single = [d \in Singles |-> NoSingle]
  /\ nextVersion = 1
  /\ modal = NoModal
  /\ content = [p \in Files |-> 0]
  /\ rerun = NoRerun
  /\ pathRecords = [p \in Paths |-> {}]
  /\ upd = NoUpdate
  /\ writer = NoWriter
  /\ limiter = NoLimiter
  /\ embedCalls = [s \in Sites |-> NoEmbedCall]
  /\ srch = NoSearch
  /\ req = NoRequest
  /\ listing = NoListing
  /\ parse = NoParse
  /\ part \in {[NoDisplay EXCEPT !.response = s, !.enabled = en] :
                s \in SeqsUpTo(Pieces, MaxPieces), en \in BOOLEAN}

NextDisplay ==
  \/ Display /\ UNCHANGED base

(***************************************************************************)
(* The guards of delete_folder and create_note, ToolExecutor.ts lines      *)
(* 219-305, over a vault whose notes have a content.                       *)
(***************************************************************************)
EmptyFolder == <<"m">>

NewNotePath == <<"d", "/", "a">>

Contents == {"x", "y"}

\* path.substring(0, path.lastIndexOf('/')), line 277
parentPath(path) ==
  IF \E k \in DOMAIN path : path[k] = "/"
  THEN SubSeq(path, 1, Len(path) - Len(LastSegment(path)) - 1)
  ELSE <<>>

\* the notes the vault holds keep their content, the others have none
Kept(v, t) ==
  [p \in NotePaths |-> IF [path |-> p, type |-> "file"] \in v THEN t[p] ELSE "none"]

\* the test of createNote line 272
Refuses(existing, overwrite) == existing /\ ~overwrite

\* createNote, lines 257-305; the outcome, the vault and the contents after it
createNote(v, t, args, storeFails) ==
  IF args.path.t # "string"
  THEN [r |-> Failure("Error: must be a string", FALSE), v |-> v, t |-> t]
  ELSE LET withExt == IF endsWith(args.path.s, mdExt) THEN args.path.s
                      ELSE args.path.s \o mdExt
           p == sanitizePath(withExt)
           existing == getAbstractFileByPath(v, p.path)
           parent == parentPath(p.path)
           withParent == IF parent # <<>> /\ getAbstractFileByPath(v, parent) = "none"
                         THEN v \cup {[path |-> parent, type |-> "folder"]} ELSE v
       IN
  IF ~p.ok THEN [r |-> Failure("Error: Invalid path", FALSE), v |-> v, t |-> t]
  ELSE IF Refuses(existing # "none", args.overwrite)
  THEN [r |-> Failure("already exists", TRUE), v |-> v, t |-> t]
  ELSE IF storeFails THEN [r |-> Failure("Error: store", TRUE), v |-> v, t |-> t]
  ELSE IF existing # "none" /\ existing # "file"
  THEN [r |-> Failure("not a file", TRUE), v |-> withParent, t |-> t]
  ELSE IF existing = "file"
  THEN [r |-> Success("Overwrote note"), v |-> withParent,
        t |-> IF p.path \in NotePaths THEN [t EXCEPT ![p.path] = args.content] ELSE t]
  ELSE [r |-> Success("Created note"),
        v |-> withParent \cup {[path |-> p.path, type |-> "file"]},
        t |-> IF p.path \in NotePaths THEN [t EXCEPT ![p.path] = args.content] ELSE t]

\* the arguments of a call: force is read by delete_folder alone, overwrite
\* and content by create_note alone
GuardArguments(tool) ==
  [kind : {"object"},
   path : {StringArg(s) : s \in {NotesFolder, EmptyFolder, NotePath, NewNotePath}},
   force : IF tool = "delete_folder" THEN BOOLEAN ELSE {FALSE},
   overwrite : IF tool = "create_note" THEN BOOLEAN ELSE {FALSE},
   content : IF tool = "create_note" THEN Contents ELSE {"x"}]

Called(tool, args, r) ==
  [tool |-> tool, path |-> args.path.s, force |-> args.force, overwrite |-> args.overwrite,
   success |-> r.success, message |-> r.message]

\* execute, lines 143-149, on a call of create_folder, delete_folder,
\* delete_note or create_note whose arguments are an object with a path
ExecuteTool(tool, args, storeFails) ==
  /\ tool \in {"create_folder", "delete_folder", "delete_note", "create_note"}
  /\ LET out == IF tool = "create_note"
                THEN createNote(vault, texts, args, storeFails)
                ELSE LET o == execute(vault, [name |-> tool, arguments |-> args], storeFails)
                     IN  [r |-> o.r, v |-> o.v, t |-> Kept(o.v, texts)]
     IN  /\ vault' = out.v
         /\ part' = [texts |-> out.t, last |-> Called(tool, args, out.r)]

InitGuard ==
  /\ vault = {[path |-> NotesFolder, type |-> "folder"], [path |-> NoteFile, type |-> "file"],
              [path |-> EmptyFolder, type |-> "folder"]}
  /\ config = [enabled |-> TRUE, requireConfirmation |-> FALSE]
  /\ pr = NoResponse
  /\ isIndexing = FALSE
  /\ circuitBroken = FALSE
  /\ consecutiveErrors = 0
  /\ indexQueue = <<>>
  /\ progress = FALSE
  /\ timerPending = FALSE
  /\ runs = [r \in Runs |-> NoRun]
  /\ store = [p \in Files |-> 0]
  /\ tripped = FALSE
  /\ endpoints = [e \in EndpointIds |-> [enabled |-> FALSE, priority |-> 0]]
  /\ providers = {}
  /\ providerStatus = [e \in EndpointIds |-> "none"]
  /\ call = NoCall
  /\ records = [c \in ChunkIndexes |-> NoRecord]
  /\ single = [d \in Singles |-> NoSingle]
  /\ nextVersion = 1
  /\ modal = NoModal
  /\ content = [p \in Files |-> 0]
  /\ rerun = NoRerun
  /\ pathRecords = [p \in Paths |-> {}]
  /\ upd = NoUpdate
  /\ writer = NoWriter
  /\ limiter = NoLimiter
  /\ embedCalls = [s \in Sites |-> NoEmbedCall]
  /\ srch = NoSearch
  /\ req = NoRequest
  /\ listing = NoListing
  /\ parse = NoParse
  /\ part = [texts |-> [p \in NotePaths |-> IF p = NoteFile THEN "x" ELSE "none"],
           last |-> NoToolCall]

NextGuard ==
  \/ \E tool \in {"create_folder", "delete_folder", "delete_note", "create_note"},
        storeFails \in BOOLEAN : \E args \in GuardArguments(tool) :
       ExecuteTool(tool, args, storeFails) /\ UNCHANGED <<config, pr, idxVars, gwVars, docVars, ext1Vars>>

(***************************************************************************)
(* RateLimiter.acquire in time, part_007 lines 22-54 and 80-95. Time is     *)
(* counted in seconds and tokens in sixtieths of a token, so that a rate   *)
(* of r requests per minute refills r sixtieths per second. The waitQueue  *)
(* of line 15 is never pushed to, so the loop of lines 90-94 never runs.   *)
(***************************************************************************)
Callers == 1..NumCallers

Token == 60

\* the result of a division by a refillRate of 0, line 43
Infinity == Token * Token

\* line 44: never wait more than 2 seconds
MaxWait == 2

\* new RateLimiter(requestsPerMinute), lines 22-27
Bucket(requestsPerMinute) ==
  [rpm |-> requestsPerMinute, tokens |-> maxTokens(requestsPerMinute) * Token, elapsed |-> 0]

\* refill, lines 80-87: the tokens of the time since lastRefill, up to maxTokens
Refilled(b) ==
  [b EXCEPT !.tokens = Min(maxTokens(b.rpm) * Token, b.tokens + b.elapsed * b.rpm),
            !.elapsed = 0]

\* line 43: Math.ceil((1 - this.tokens) / this.refillRate), in seconds
timeToNextToken(b) ==
  IF b.rpm = 0 THEN Infinity
  ELSE ((Token - b.tokens) + b.rpm - 1) \div b.rpm

maxWait_Uncapped(time) == time

\* line 44
maxWait(time) == Min(time, MaxWait)

\* acquire, lines 32-53, up to its return or to the arming of its timer
Acquire(c) ==
  /\ callers[c].pc = "idle"
  /\ LET b == Refilled(bucket) IN
     IF b.tokens >= Token
     THEN part' = [bucket |-> [b EXCEPT !.tokens = @ - Token],
                  callers |-> [callers EXCEPT ![c] =
                                 [pc |-> "resolved", remaining |-> 0, waited |-> 0]]]
     ELSE part' = [bucket |-> b,
                  callers |-> [callers EXCEPT ![c] =
                                 [pc |-> "waiting",
                                  remaining |-> maxWait(timeToNextToken(b)),
                                  waited |-> 0]]]

\* lines 46-52: the timer of a waiting call fires; it refills, takes a token
\* if there is one, and resolves
TimerFires(c) ==
  /\ callers[c].pc = "waiting"
  /\ callers[c].remaining = 0
  /\ LET b == Refilled(bucket) IN
     part' = [bucket |-> IF b.tokens >= Token THEN [b EXCEPT !.tokens = @ - Token] ELSE b,
             callers |-> [callers EXCEPT ![c].pc = "resolved"]]

\* a second passes; a timer that is due fires before the next second
Tick ==
  /\ bucket.elapsed < MaxElapsed
  /\ \A c \in Callers : callers[c].pc = "waiting" => callers[c].remaining > 0
  /\ part' = [bucket |-> [bucket EXCEPT !.elapsed = @ + 1],
             callers |-> [c \in Callers |->
                            IF callers[c].pc = "waiting"
                            THEN [callers[c] EXCEPT !.remaining = @ - 1, !.waited = @ + 1]
                            ELSE callers[c]]]

\* the caller goes on after the await of acquire
Resumes(c) ==
  /\ callers[c].pc = "resolved"
  /\ part' = [part EXCEPT !.callers[c] = NoCaller]

InitAcquire ==
  /\ isIndexing = FALSE
  /\ circuitBroken = FALSE
  /\ consecutiveErrors = 0
  /\ indexQueue = <<>>
  /\ progress = FALSE
  /\ timerPending = FALSE
  /\ runs = [r \in Runs |-> NoRun]
  /\ store = [p \in Files |-> 0]
  /\ tripped = FALSE
  /\ endpoints = [e \in EndpointIds |-> [enabled |-> FALSE, priority |-> 0]]
  /\ providers = {}
  /\ providerStatus = [e \in EndpointIds |-> "none"]
  /\ call = NoCall
  /\ vault = {}
  /\ config = [enabled |-> FALSE, requireConfirmation |-> FALSE]
  /\ pr = NoResponse
  /\ records = [c \in ChunkIndexes |-> NoRecord]
  /\ single = [d \in Singles |-> NoSingle]
  /\ nextVersion = 1
  /\ modal = NoModal
  /\ content = [p \in Files |-> 0]
  /\ rerun = NoRerun
  /\ pathRecords = [p \in Paths |-> {}]
  /\ upd = NoUpdate
  /\ writer = NoWriter
  /\ limiter = NoLimiter
  /\ embedCalls = [s \in Sites |-> NoEmbedCall]
  /\ srch = NoSearch
  /\ req = NoRequest
  /\ listing = NoListing
  /\ parse = NoParse
  /\ part \in {[bucket |-> Bucket(rpm), callers |-> [c \in Callers |-> NoCaller]] :
                rpm \in 0..MaxRpm}

NextAcquire ==
  \/ \E c \in Callers : Acquire(c) /\ UNCHANGED base
  \/ \E c \in Callers : TimerFires(c) /\ UNCHANGED base
  \/ Tick /\ UNCHANGED base
  \/ \E c \in Callers : Resumes(c) /\ UNCHANGED base

(***************************************************************************)
(* chunkText and chunkSection, Chunker.ts lines 46-235, with              *)
(* findBreakPoint, lines 240-277. cleanText (line 298) turns every run of  *)
(* white space into one space and trims, so the text chunkSection gets has *)
(* no newline: the paragraph and newline searches of findBreakPoint find   *)
(* nothing, and splitByHeaders, whose pattern then matches through the end *)
(* of the text, yields the whole text as its one section. Positions count  *)
(* from 0 as in the code.                                                  *)
(***************************************************************************)
ChunkChars == {"a", " ", "."}

\* the texts cleanText returns: trimmed, no two spaces in a row
CleanTexts ==
  {t \in SeqsUpTo(ChunkChars, MaxText) :
     /\ t # <<>>
     /\ t[1] # " " /\ t[Len(t)] # " "
     /\ \A k \in 1..(Len(t) - 1) : ~(t[k] = " " /\ t[k + 1] = " ")}

\* text.slice(from, to)
slice(text, from, to) == SubSeq(text, from + 1, to)

\* String.prototype.trim, without recursion
trimmed(s) ==
  LET inked == {k \in DOMAIN s : s[k] # " "} IN
  IF inked = {} THEN <<>>
  ELSE SubSeq(s, CHOOSE k \in inked : \A j \in inked : k <= j,
                 CHOOSE k \in inked : \A j \in inked : k >= j)

\* the largest member of a set of positions, -1 for none: lastIndexOf
lastOf(positions) ==
  IF positions = {} THEN -1 ELSE CHOOSE p \in positions : \A q \in positions : p >= q

\* findBreakPoint, lines 240-277
findBreakPoint(text, start, maxEnd) ==
  LET searchRange == slice(text, start, maxEnd)
      lastSentenceBreak ==
        lastOf({p \in 0..(Len(searchRange) - 2) :
                  searchRange[p + 1] = "." /\ searchRange[p + 2] = " "})
      spaceBreak == lastOf({p \in 0..(Len(searchRange) - 1) : searchRange[p + 1] = " "})
  IN  IF lastSentenceBreak > 0 THEN start + lastSentenceBreak + 2
      ELSE IF spaceBreak > 0 THEN start + spaceBreak + 1
      ELSE maxEnd

nextStart_NoFallback(startPos, endPos, overlap) == endPos - overlap

\* lines 218-226: the start of the next chunk
nextStart(startPos, endPos, overlap) ==
  IF endPos - overlap <= startPos THEN endPos ELSE endPos - overlap

\* lines 192-200: the end of the chunk that starts at startPos
chunkEnd(c) ==
  LET endPos == Min(c.startPos + c.chunkSize, Len(c.text))
      breakPoint == findBreakPoint(c.text, c.startPos, endPos)
  IN  IF endPos < Len(c.text) /\ breakPoint > c.startPos + c.minChunkSize
      THEN breakPoint ELSE endPos

\* lines 202-215: the chunk is pushed, or merged with the one before it
pushed(c, endPos) ==
  LET chunk == trimmed(slice(c.text, c.startPos, endPos))
      n == Len(c.chunks)
  IN  IF Len(chunk) >= c.minChunkSize \/ n = 0
      THEN Append(c.chunks, [content |-> chunk, startPos |-> c.startPos, endPos |-> endPos])
      ELSE [c.chunks EXCEPT ![n] =
              [content |-> trimmed(slice(c.text, c.chunks[n].startPos, endPos)),
               startPos |-> c.chunks[n].startPos, endPos |-> endPos]]

\* chunkText lines 46-67 and chunkSection lines 165-180: a text no longer
\* than chunkSize is its own chunk, a longer one enters the loop
chunkText ==
  /\ chunker.pc = "idle"
  /\ chunker' =
       IF Len(chunker.text) <= chunker.chunkSize
       THEN [chunker EXCEPT !.pc = "done",
               !.chunks = <<[content |-> chunker.text, startPos |-> 0,
                             endPos |-> Len(chunker.text)]>>]
       ELSE [chunker EXCEPT !.pc = "loop"]

\* one pass of the while loop of chunkSection, lines 182-232
Iterate ==
  /\ chunker.pc = "loop"
  /\ chunker' =
       IF chunker.startPos >= Len(chunker.text) \/ chunker.startPos = chunker.lastStartPos
       THEN [chunker EXCEPT !.pc = "done"]
       ELSE LET endPos == chunkEnd(chunker) IN
            [chunker EXCEPT
               !.lastStartPos = chunker.startPos,
               !.endPos = endPos,
               !.chunks = pushed(chunker, endPos),
               !.startPos = nextStart(chunker.startPos, endPos, chunker.overlap),
               !.pc = IF endPos >= Len(chunker.text) THEN "done" ELSE "loop"]

InitChunk ==
  /\ isIndexing = FALSE
  /\ circuitBroken = FALSE
  /\ consecutiveErrors = 0
  /\ indexQueue = <<>>
  /\ progress = FALSE
  /\ timerPending = FALSE
  /\ runs = [r \in Runs |-> NoRun]
  /\ store = [p \in Files |-> 0]
  /\ tripped = FALSE
  /\ endpoints = [e \in EndpointIds |-> [enabled |-> FALSE, priority |-> 0]]
  /\ providers = {}
  /\ providerStatus = [e \in EndpointIds |-> "none"]
  /\ call = NoCall
  /\ vault = {}
  /\ config = [enabled |-> FALSE, requireConfirmation |-> FALSE]
  /\ pr = NoResponse
  /\ records = [c \in ChunkIndexes |-> NoRecord]
  /\ single = [d \in Singles |-> NoSingle]
  /\ nextVersion = 1
  /\ modal = NoModal
  /\ content = [p \in Files |-> 0]
  /\ rerun = NoRerun
  /\ pathRecords = [p \in Paths |-> {}]
  /\ upd = NoUpdate
  /\ writer = NoWriter
  /\ limiter = NoLimiter
  /\ embedCalls = [s \in Sites |-> NoEmbedCall]
  /\ srch = NoSearch
  /\ req = NoRequest
  /\ listing = NoListing
  /\ parse = NoParse
  /\ part \in {[NoChunker EXCEPT !.text = t, !.chunkSize = s[1], !.overlap = s[2],
                               !.minChunkSize = mn] :
                t \in CleanTexts, mn \in 0..MaxMinChunk,
                s \in {x \in (1..MaxChunkSize) \X (0..MaxChunkSize) : x[2] < x[1]}}

NextChunk ==
  \/ chunkText /\ UNCHANGED base
  \/ Iterate /\ UNCHANGED base

(***************************************************************************)
(* chatStream of the two providers: OllamaProvider, part_002 lines        *)
(* 165-275, and OpenAIProvider, part_003 lines 496-600. stream.events is   *)
(* the sequence of the chunks handed to onChunk.                           *)
(***************************************************************************)
StreamProviders == {"ollama", "openai"}

Deltas == {"", "a", "b"}

\* the lines of a response stream: a delta, and whether the line says done
\* (done: true of Ollama, data: [DONE] of OpenAI, which carries no delta)
StreamLines(provider) ==
  {l \in [content : Deltas, done : BOOLEAN] :
     provider = "openai" /\ l.done => l.content = ""}

\* part_002 lines 241-255, part_003 lines 577-591: the chunks of one line
LineChunks(line) ==
  (IF line.content # "" THEN <<[content |-> line.content, done |-> FALSE]>> ELSE <<>>)
    \o (IF line.done THEN <<[content |-> "", done |-> TRUE]>> ELSE <<>>)

\* chatStream: part_002 lines 170-174 without fetch, part_003 lines 501-505
\* without useNativeFetch, go through chat; otherwise the stream is read
ProviderChatStream(provider, streams) ==
  /\ stream.pc = "idle"
  /\ part' = [pc |-> IF streams THEN "reading" ELSE "chat", provider |-> provider,
                events |-> <<>>]

\* part_002 lines 172-174, part_003 lines 506-513: chat answered, its whole
\* content goes to the sink in one chunk
ChatAnswers(answer) ==
  /\ stream.pc = "chat"
  /\ part' = [stream EXCEPT !.pc = "returned",
                  !.events = Append(@, [content |-> answer, done |-> TRUE])]

\* chat threw: chatStream throws with it
ChatThrows ==
  /\ stream.pc = "chat"
  /\ part' = [stream EXCEPT !.pc = "thrown"]

\* one line of the stream is read and parsed
ReadLine(line) ==
  /\ stream.pc = "reading"
  /\ Len(stream.events) < MaxEvents
  /\ line \in StreamLines(stream.provider)
  /\ part' = [stream EXCEPT !.events = @ \o LineChunks(line)]

\* part_002 lines 225-229, part_003 lines 565-569: the reader is done
ReadDone ==
  /\ stream.pc = "reading"
  /\ part' = [stream EXCEPT !.pc = "returned",
                  !.events = Append(@, [content |-> "", done |-> TRUE])]

\* the read threw or the timeout aborted it
ReadThrows ==
  /\ stream.pc = "reading"
  /\ part' = [stream EXCEPT !.pc = "thrown"]

InitStream ==
  /\ isIndexing = FALSE
  /\ circuitBroken = FALSE
  /\ consecutiveErrors = 0
  /\ indexQueue = <<>>
  /\ progress = FALSE
  /\ timerPending = FALSE
  /\ runs = [r \in Runs |-> NoRun]
  /\ store = [p \in Files |-> 0]
  /\ tripped = FALSE
  /\ endpoints = [e \in EndpointIds |-> [enabled |-> FALSE, priority |-> 0]]
  /\ providers = {}
  /\ providerStatus = [e \in EndpointIds |-> "none"]
  /\ call = NoCall
  /\ vault = {}
  /\ config = [enabled |-> FALSE, requireConfirmation |-> FALSE]
  /\ pr = NoResponse
  /\ records = [c \in ChunkIndexes |-> NoRecord]
  /\ single = [d \in Singles |-> NoSingle]
  /\ nextVersion = 1
  /\ modal = NoModal
  /\ content = [p \in Files |-> 0]
  /\ rerun = NoRerun
  /\ pathRecords = [p \in Paths |-> {}]
  /\ upd = NoUpdate
  /\ writer = NoWriter
  /\ limiter = NoLimiter
  /\ embedCalls = [s \in Sites |-> NoEmbedCall]
  /\ srch = NoSearch
  /\ req = NoRequest
  /\ listing = NoListing
  /\ parse = NoParse
  /\ part = NoStream

NextStream ==
  \/ \E provider \in StreamProviders, streams \in BOOLEAN : ProviderChatStream(provider, streams) /\ UNCHANGED base
  \/ \E answer \in Deltas : ChatAnswers(answer) /\ UNCHANGED base
  \/ ChatThrows /\ UNCHANGED base
  \/ \E line \in [content : Deltas, done : BOOLEAN] : ReadLine(line) /\ UNCHANGED base
  \/ ReadDone /\ UNCHANGED base
  \/ ReadThrows /\ UNCHANGED base

(***************************************************************************)
(* RAGPipeline.chat with retrieveContext, part_006 lines 79-192.           *)
(***************************************************************************)
Sources == 1..NumSources

Answers == {"a", "b"}

\* what providerManager.embed gives retrieveContext: it throws, it returns
\* no embedding, or it returns one
EmbedOutcomes == {"throws", "empty", "embedding"}

retrieveContext_Rethrows(r, outcome) ==
  IF outcome = "throws" THEN [r EXCEPT !.pc = "thrown", !.embedFailed = TRUE, !.error = "embed"]
  ELSE IF outcome = "empty" THEN [r EXCEPT !.pc = "prompt"]
  ELSE [r EXCEPT !.pc = "search"]

\* retrieveContext, lines 145-157 and 187-190: the call of embed settles; the
\* catch of line 187 turns its failure into an empty context
retrieveContext(r, outcome) ==
  IF outcome = "throws" THEN [r EXCEPT !.pc = "prompt", !.embedFailed = TRUE, !.context = {}]
  ELSE IF outcome = "empty" THEN [r EXCEPT !.pc = "prompt", !.context = {}]
  ELSE [r EXCEPT !.pc = "search"]

\* chat line 84: the retrieval of the context begins
RagChat ==
  /\ rag.pc = "idle"
  /\ part' = [rag EXCEPT !.pc = "embed"]

EmbedSettles(outcome) ==
  /\ rag.pc = "embed"
  /\ part' = retrieveContext(rag, outcome)

\* lines 159-190: vectorStore.search settles, with its results or by throwing
SearchSettles(throws, results) ==
  /\ rag.pc = "search"
  /\ part' = [rag EXCEPT !.pc = "prompt", !.context = IF throws THEN {} ELSE results]

\* chat lines 87-97: the memories, the prompt, and the answer of the model
\* or the error of providerManager.chat, which chat does not catch
ChatSettles(throws, answer) ==
  /\ rag.pc = "prompt"
  /\ part' = IF throws THEN [rag EXCEPT !.pc = "thrown", !.error = "chat"]
            ELSE [rag EXCEPT !.pc = "answered", !.answer = answer]

\* chat lines 99-139: the answer goes through processResponse when tool
\* calling is on, extractMemories (lines 275-322) runs when memory is on and
\* catches the failure of its own call of the model, then chat returns
RagReturns(extraction) ==
  /\ rag.pc = "answered"
  /\ extraction \in (IF rag.enableMemory THEN {"none", "throws", "added"} ELSE {"none"})
  /\ part' = [rag EXCEPT !.pc = "returned", !.contextSources = rag.context,
                        !.processed = rag.enableToolCalling, !.extraction = extraction]

InitRag ==
  /\ isIndexing = FALSE
  /\ circuitBroken = FALSE
  /\ consecutiveErrors = 0
  /\ indexQueue = <<>>
  /\ progress = FALSE
  /\ timerPending = FALSE
  /\ runs = [r \in Runs |-> NoRun]
  /\ store = [p \in Files |-> 0]
  /\ tripped = FALSE
  /\ endpoints = [e \in EndpointIds |-> [enabled |-> FALSE, priority |-> 0]]
  /\ providers = {}
  /\ providerStatus = [e \in EndpointIds |-> "none"]
  /\ call = NoCall
  /\ vault = {}
  /\ config = [enabled |-> FALSE, requireConfirmation |-> FALSE]
  /\ pr = NoResponse
  /\ records = [c \in ChunkIndexes |-> NoRecord]
  /\ single = [d \in Singles |-> NoSingle]
  /\ nextVersion = 1
  /\ modal = NoModal
  /\ content = [p \in Files |-> 0]
  /\ rerun = NoRerun
  /\ pathRecords = [p \in Paths |-> {}]
  /\ upd = NoUpdate
  /\ writer = NoWriter
  /\ limiter = NoLimiter
  /\ embedCalls = [s \in Sites |-> NoEmbedCall]
  /\ srch = NoSearch
  /\ req = NoRequest
  /\ listing = NoListing
  /\ parse = NoParse
  /\ part \in {[NoRag EXCEPT !.enableMemory = m, !.enableToolCalling = t] :
                m \in BOOLEAN, t \in BOOLEAN}

NextRag ==
  \/ RagChat /\ UNCHANGED base
  \/ \E outcome \in EmbedOutcomes : EmbedSettles(outcome) /\ UNCHANGED base
  \/ \E throws \in BOOLEAN, results \in SUBSET Sources : SearchSettles(throws, results) /\ UNCHANGED base
  \/ \E throws \in BOOLEAN, answer \in Answers : ChatSettles(throws, answer) /\ UNCHANGED base
  \/ \E extraction \in {"none", "throws", "added"} : RagReturns(extraction) /\ UNCHANGED base

(***************************************************************************)
(* MemoryManager, memory.ts lines 93-212: addMemory, deleteMemory and      *)
(* getRelevantMemories. Two contents are similar above 0.9 when they are   *)
(* the same content.                                                       *)
(***************************************************************************)
MemoryContents == {"c1", "c2", "c3"}

\* Array.prototype.sort((a, b) => a.accessCount - b.accessCount), stable
RECURSIVE InsertByAccess(_, _)
InsertByAccess(sorted, x) ==
  IF sorted = <<>> THEN <<x>>
  ELSE IF sorted[Len(sorted)].accessCount <= x.accessCount THEN Append(sorted, x)
  ELSE Append(InsertByAccess(SubSeq(sorted, 1, Len(sorted) - 1), x), sorted[Len(sorted)])

RECURSIVE SortByAccess(_)
SortByAccess(s) ==
  IF s = <<>> THEN <<>>
  ELSE InsertByAccess(SortByAccess(SubSeq(s, 1, Len(s) - 1)), s[Len(s)])

\* lines 111-115: the order in which a full list gives up its first memory
EvictionOrder(s) == SortByAccess(s)

\* the memory list touched at the positions given: lines 102-103, 200-203
Touched(s, positions, stamp) ==
  [k \in DOMAIN s |->
     IF k \in positions
     THEN [s[k] EXCEPT !.lastAccessedAt = stamp, !.accessCount = @ + 1]
     ELSE s[k]]

\* addMemory, lines 93-130, at a time after the call before it
addMemory(text) ==
  /\ now < MaxStamp
  /\ LET similar == {k \in DOMAIN memories : memories[k].content = text}
         full == Len(memories) >= MaxMemories
         sorted == EvictionOrder(memories)
         kept == IF full THEN Tail(sorted) ELSE memories
     IN  part' =
           IF similar # {}
           THEN [part EXCEPT
                   !.now = @ + 1,
                   !.memories = Touched(memories,
                                  {CHOOSE k \in similar : \A j \in similar : k <= j}, now)]
           ELSE [now |-> now + 1,
                 memories |-> Append(kept, [content |-> text, lastAccessedAt |-> now,
                                            accessCount |-> 1]),
                 eviction |-> IF full THEN [evicted |-> Head(sorted), before |-> memories]
                              ELSE eviction]

\* getRelevantMemories, lines 176-212: the memories that share a word with
\* the query are touched
getRelevantMemories(relevant) ==
  /\ now < MaxStamp
  /\ relevant # {}
  /\ relevant \subseteq DOMAIN memories
  /\ part' = [part EXCEPT !.now = @ + 1, !.memories = Touched(memories, relevant, now)]

\* deleteMemory, lines 154-161
deleteMemory(k) ==
  /\ now < MaxStamp
  /\ k \in DOMAIN memories
  /\ part' = [part EXCEPT !.now = @ + 1,
                        !.memories = SubSeq(memories, 1, k - 1)
                                       \o SubSeq(memories, k + 1, Len(memories))]

InitMemory ==
  /\ isIndexing = FALSE
  /\ circuitBroken = FALSE
  /\ consecutiveErrors = 0
  /\ indexQueue = <<>>
  /\ progress = FALSE
  /\ timerPending = FALSE
  /\ runs = [r \in Runs |-> NoRun]
  /\ store = [p \in Files |-> 0]
  /\ tripped = FALSE
  /\ endpoints = [e \in EndpointIds |-> [enabled |-> FALSE, priority |-> 0]]
  /\ providers = {}
  /\ providerStatus = [e \in EndpointIds |-> "none"]
  /\ call = NoCall
  /\ vault = {}
  /\ config = [enabled |-> FALSE, requireConfirmation |-> FALSE]
  /\ pr = NoResponse
  /\ records = [c \in ChunkIndexes |-> NoRecord]
  /\ single = [d \in Singles |-> NoSingle]
  /\ nextVersion = 1
  /\ modal = NoModal
  /\ content = [p \in Files |-> 0]
  /\ rerun = NoRerun
  /\ pathRecords = [p \in Paths |-> {}]
  /\ upd = NoUpdate
  /\ writer = NoWriter
  /\ limiter = NoLimiter
  /\ embedCalls = [s \in Sites |-> NoEmbedCall]
  /\ srch = NoSearch
  /\ req = NoRequest
  /\ listing = NoListing
  /\ parse = NoParse
  /\ part = [memories |-> <<>>, now |-> 0,
           eviction |-> [evicted |-> NoMemory, before |-> <<>>]]

NextMemory ==
  \/ \E text \in MemoryContents : addMemory(text) /\ UNCHANGED base
  \/ \E relevant \in SUBSET (1..MaxMemories) : getRelevantMemories(relevant) /\ UNCHANGED base
  \/ \E k \in 1..MaxMemories : deleteMemory(k) /\ UNCHANGED base

(***************************************************************************)
(* The index queue of the EmbeddingManager and what empties it:           *)
(* queueFile (lines 127-136), the debounced processIndexQueue (lines 72-74 *)
(* and 393-446), indexVault (lines 153-327), forceStop, cleanup and        *)
(* resetCircuitBreaker. One run of each kind is followed.                  *)
(***************************************************************************)
QueuePaths == {"a", "b"}

\* the sequences that hold every path of a set once: Array.from(indexQueue)
Orders(S) ==
  {s \in [1..Cardinality(S) -> S] : \A p \in S : \E k \in 1..Cardinality(S) : s[k] = p}

\* queueFile, lines 127-136; allowed stands for the tests of the settings,
\* the exclusions, the provider and the platform
QueueFile(path, allowed) ==
  /\ allowed /\ ~iq.circuitBroken
  /\ part' = [iq EXCEPT !.indexQueue = @ \cup {path}, !.timerPending = TRUE]

\* the debounce timer fires: processIndexQueue up to its loop, lines 393-406
DebounceFires ==
  /\ iq.timerPending
  /\ iq.queueRun => (iq.isIndexing \/ iq.indexQueue = {} \/ iq.circuitBroken)
  /\ \E paths \in Orders(iq.indexQueue) :
     part' = IF iq.isIndexing \/ iq.indexQueue = {}
           THEN [iq EXCEPT !.timerPending = FALSE]
           ELSE IF iq.circuitBroken
           THEN [iq EXCEPT !.timerPending = FALSE, !.indexQueue = {}]
           ELSE [iq EXCEPT !.timerPending = FALSE, !.indexQueue = {}, !.isIndexing = TRUE,
                           !.queueRun = TRUE, !.paths = paths]

\* one pass of the loop of processIndexQueue, lines 408-436, or its end with
\* the finally of lines 437-444
QueueRunStep(outcome) ==
  /\ iq.queueRun
  /\ IF iq.circuitBroken \/ iq.paths = <<>>
     THEN part' = [iq EXCEPT !.queueRun = FALSE, !.paths = <<>>, !.isIndexing = FALSE,
                          !.timerPending =
                             @ \/ (iq.indexQueue # {} /\ ~iq.circuitBroken)]
     ELSE IF outcome = "ok"
     THEN part' = [iq EXCEPT !.paths = Tail(@), !.indexed = @ \cup {Head(iq.paths)},
                          !.consecutiveErrors = 0]
     ELSE IF outcome = "connection"
     THEN part' = [iq EXCEPT !.paths = Tail(@),
                   !.consecutiveErrors = Min(@ + 1, maxConsecutiveErrors),
                   !.circuitBroken = (iq.consecutiveErrors + 1 >= maxConsecutiveErrors)]
     ELSE part' = [iq EXCEPT !.paths = Tail(@)]

\* indexVault up to its try, lines 153-178
IndexVaultStarts ==
  /\ ~iq.isIndexing
  /\ ~iq.vaultRun
  /\ part' = [iq EXCEPT !.circuitBroken = FALSE, !.consecutiveErrors = 0, !.isIndexing = TRUE,
                      !.vaultRun = TRUE]

\* indexVault leaves through its finally, lines 323-327
IndexVaultEnds ==
  /\ iq.vaultRun
  /\ part' = [iq EXCEPT !.vaultRun = FALSE, !.isIndexing = FALSE]

\* forceStop, lines 109-115
QueueForceStop ==
  /\ part' = [iq EXCEPT !.circuitBroken = TRUE, !.indexQueue = {}, !.isIndexing = FALSE]

\* cleanup, lines 385-388
cleanup ==
  /\ part' = [iq EXCEPT !.indexQueue = {}]

\* resetCircuitBreaker, lines 101-104
QueueResetCircuitBreaker ==
  /\ part' = [iq EXCEPT !.circuitBroken = FALSE, !.consecutiveErrors = 0]

InitQueue ==
  /\ isIndexing = FALSE
  /\ circuitBroken = FALSE
  /\ consecutiveErrors = 0
  /\ indexQueue = <<>>
  /\ progress = FALSE
  /\ timerPending = FALSE
  /\ runs = [r \in Runs |-> NoRun]
  /\ store = [p \in Files |-> 0]
  /\ tripped = FALSE
  /\ endpoints = [e \in EndpointIds |-> [enabled |-> FALSE, priority |-> 0]]
  /\ providers = {}
  /\ providerStatus = [e \in EndpointIds |-> "none"]
  /\ call = NoCall
  /\ vault = {}
  /\ config = [enabled |-> FALSE, requireConfirmation |-> FALSE]
  /\ pr = NoResponse
  /\ records = [c \in ChunkIndexes |-> NoRecord]
  /\ single = [d \in Singles |-> NoSingle]
  /\ nextVersion = 1
  /\ modal = NoModal
  /\ content = [p \in Files |-> 0]
  /\ rerun = NoRerun
  /\ pathRecords = [p \in Paths |-> {}]
  /\ upd = NoUpdate
  /\ writer = NoWriter
  /\ limiter = NoLimiter
  /\ embedCalls = [s \in Sites |-> NoEmbedCall]
  /\ srch = NoSearch
  /\ req = NoRequest
  /\ listing = NoListing
  /\ parse = NoParse
  /\ part = NoQueue

NextQueue ==
  \/ \E path \in QueuePaths, allowed \in BOOLEAN : QueueFile(path, allowed) /\ UNCHANGED base
  \/ DebounceFires /\ UNCHANGED base
  \/ \E outcome \in {"ok", "connection", "other"} : QueueRunStep(outcome) /\ UNCHANGED base
  \/ IndexVaultStarts /\ UNCHANGED base
  \/ IndexVaultEnds /\ UNCHANGED base
  \/ QueueForceStop /\ UNCHANGED base
  \/ cleanup /\ UNCHANGED base
  \/ QueueResetCircuitBreaker /\ UNCHANGED base

(***************************************************************************)
(* The delete handler (part_013 lines 250-257), which calls deleteByPath   *)
(* (part_009 lines 247-282) un-awaited, next to an indexSingleFile of the  *)
(* same document (EmbeddingManager.ts lines 503-571). Every IndexedDB      *)
(* transaction is one step.                                                *)
(***************************************************************************)
\* IndexedDB starts the transactions over the one object store in the order
\* of their creation; behind tells that the other caller's was created first
IndexerPending == indexer.pc \in {"getByPath", "delete", "upsert"}

DeleterPending == deleter.pc \in {"getByPath", "transaction"}

\* indexSingleFile has read the file and reaches deleteByPath(file.path)
\* with its chunks, line 505; a file that is gone cannot be read
IndexerStart(documents) ==
  /\ indexer.pc = "idle"
  /\ ~deleted
  /\ part' = [part EXCEPT !.indexer = [pc |-> "getByPath", found |-> {},
                                     documents |-> documents, behind |-> DeleterPending]]

\* deleteByPath line 250 in indexSingleFile: getByPath resolves and the
\* delete transaction is created
IndexerGetByPathDone ==
  /\ indexer.pc = "getByPath" /\ ~indexer.behind
  /\ part' = [part EXCEPT !.indexer = [@ EXCEPT !.pc = "delete", !.found = stored,
                                              !.behind = DeleterPending],
                        !.deleter.behind = FALSE]

\* deleteByPath lines 252-281 in indexSingleFile: the delete transaction
IndexerDeleteDone ==
  /\ indexer.pc = "delete" /\ ~indexer.behind
  /\ part' = [part EXCEPT !.stored = @ \ indexer.found,
                        !.indexer.pc = "embed",
                        !.deleter.behind = FALSE]

\* lines 513-566: the embedding requests settle; a failure leaves
\* indexSingleFile, success goes on to upsertBatch, which creates its
\* transaction
IndexerEmbedDone(ok) ==
  /\ indexer.pc = "embed"
  /\ part' = [part EXCEPT !.indexer = IF ok THEN [@ EXCEPT !.pc = "upsert",
                                                         !.behind = DeleterPending]
                                     ELSE [@ EXCEPT !.pc = "done"]]

\* line 571 with upsertBatch, part_009 lines 147-193: the put transaction
IndexerUpsertDone ==
  /\ indexer.pc = "upsert" /\ ~indexer.behind
  /\ part' = [part EXCEPT !.stored = @ \cup indexer.documents,
                        !.indexer.pc = "done",
                        !.deleter.behind = FALSE]

\* the delete event, part_013 lines 252-256: deleteByPath up to its await
DeleteEvent ==
  /\ ~deleted
  /\ part' = [part EXCEPT !.deleted = TRUE,
                        !.deleter = [pc |-> "getByPath", docs |-> {},
                                     behind |-> IndexerPending]]

\* deleteByPath line 250 in the handler: getByPath resolves with the records
\* of that moment; with none the call is over, lines 277-280, else the
\* delete transaction is created
DeleterGetByPathDone ==
  /\ deleter.pc = "getByPath" /\ ~deleter.behind
  /\ part' = [part EXCEPT
               !.deleter = IF stored = {} THEN [pc |-> "done", docs |-> {}, behind |-> FALSE]
                           ELSE [pc |-> "transaction", docs |-> stored,
                                 behind |-> IndexerPending],
               !.indexer.behind = FALSE]

\* deleteByPath lines 252-275 in the handler: the delete transaction
DeleterTransactionDone ==
  /\ deleter.pc = "transaction" /\ ~deleter.behind
  /\ part' = [part EXCEPT !.stored = @ \ deleter.docs,
                        !.deleter.pc = "done",
                        !.indexer.behind = FALSE]

InitDelete ==
  /\ isIndexing = FALSE
  /\ circuitBroken = FALSE
  /\ consecutiveErrors = 0
  /\ indexQueue = <<>>
  /\ progress = FALSE
  /\ timerPending = FALSE
  /\ runs = [r \in Runs |-> NoRun]
  /\ store = [p \in Files |-> 0]
  /\ tripped = FALSE
  /\ endpoints = [e \in EndpointIds |-> [enabled |-> FALSE, priority |-> 0]]
  /\ providers = {}
  /\ providerStatus = [e \in EndpointIds |-> "none"]
  /\ call = NoCall
  /\ vault = {}
  /\ config = [enabled |-> FALSE, requireConfirmation |-> FALSE]
  /\ pr = NoResponse
  /\ records = [c \in ChunkIndexes |-> NoRecord]
  /\ single = [d \in Singles |-> NoSingle]
  /\ nextVersion = 1
  /\ modal = NoModal
  /\ content = [p \in Files |-> 0]
  /\ rerun = NoRerun
  /\ pathRecords = [p \in Paths |-> {}]
  /\ upd = NoUpdate
  /\ writer = NoWriter
  /\ limiter = NoLimiter
  /\ embedCalls = [s \in Sites |-> NoEmbedCall]
  /\ srch = NoSearch
  /\ req = NoRequest
  /\ listing = NoListing
  /\ parse = NoParse
  /\ part \in {[stored |-> st, deleted |-> FALSE, deleter |-> NoDeleter, indexer |-> NoIndexer] :
                st \in SUBSET ChunkIndexes}

NextDelete ==
  \/ \E documents \in SUBSET ChunkIndexes \ {{}} : IndexerStart(documents) /\ UNCHANGED base
  \/ IndexerGetByPathDone /\ UNCHANGED base
  \/ IndexerDeleteDone /\ UNCHANGED base
  \/ \E ok \in BOOLEAN : IndexerEmbedDone(ok) /\ UNCHANGED base
  \/ IndexerUpsertDone /\ UNCHANGED base
  \/ DeleteEvent /\ UNCHANGED base
  \/ DeleterGetByPathDone /\ UNCHANGED base
  \/ DeleterTransactionDone /\ UNCHANGED base

(***************************************************************************)
(* The health gate of indexVault, lines 181-207, over checkAllHealth,       *)
(* ProviderManager.ts lines 136-156: the checks run in parallel and each   *)
(* one enters its result into the map when it settles.                     *)
(***************************************************************************)
gate == part

HealthEndpoints == 1..NumProviders

\* healthResults in the order of the map: the kinds in insertion order
ResultsInOrder(g) == [k \in 1..Len(g.results) |-> g.kinds[g.results[k]]]

\* checkAllHealth lines 141-143: the check of endpoint id settles and
\* results.set(id, result) appends its entry to the map
HealthCheckSettles(id) ==
  /\ gate.outcome = "checking"
  /\ ~InSeq(id, gate.results)
  /\ part' = [gate EXCEPT !.results = Append(@, id)]

\* Promise.all has settled, line 154; indexVault lines 184-209
GateDecides ==
  /\ gate.outcome = "checking"
  /\ Len(gate.results) = NumProviders
  /\ LET h == ResultsInOrder(gate) IN
     part' = [gate EXCEPT !.outcome = IF FirstHealthy(h) = 0 THEN "connectionFailed"
                                      ELSE IF GatePasses(h) THEN "proceeds"
                                      ELSE "modelNotFound"]

InitHealth ==
  /\ isIndexing = FALSE
  /\ circuitBroken = FALSE
  /\ consecutiveErrors = 0
  /\ indexQueue = <<>>
  /\ progress = FALSE
  /\ timerPending = FALSE
  /\ runs = [r \in Runs |-> NoRun]
  /\ store = [p \in Files |-> 0]
  /\ tripped = FALSE
  /\ endpoints = [e \in EndpointIds |-> [enabled |-> FALSE, priority |-> 0]]
  /\ providers = {}
  /\ providerStatus = [e \in EndpointIds |-> "none"]
  /\ call = NoCall
  /\ vault = {}
  /\ config = [enabled |-> FALSE, requireConfirmation |-> FALSE]
  /\ pr = NoResponse
  /\ records = [c \in ChunkIndexes |-> NoRecord]
  /\ single = [d \in Singles |-> NoSingle]
  /\ nextVersion = 1
  /\ modal = NoModal
  /\ content = [p \in Files |-> 0]
  /\ rerun = NoRerun
  /\ pathRecords = [p \in Paths |-> {}]
  /\ upd = NoUpdate
  /\ writer = NoWriter
  /\ limiter = NoLimiter
  /\ embedCalls = [s \in Sites |-> NoEmbedCall]
  /\ srch = NoSearch
  /\ req = NoRequest
  /\ listing = NoListing
  /\ parse = NoParse
  /\ part \in {[kinds |-> k, results |-> <<>>, outcome |-> "checking"] :
                k \in [HealthEndpoints -> HealthKinds]}

NextHealth ==
  \/ \E id \in HealthEndpoints : HealthCheckSettles(id) /\ UNCHANGED base
  \/ GateDecides /\ UNCHANGED base

(***************************************************************************)
(* The two tests for "this document has to be indexed again":             *)
(* needsReindex, part_009 lines 493-503, and the filter of indexVault,     *)
(* lines 232-241, over getIndexedPathsWithMtime, part_009 lines 517-548.   *)
(* A file and a record are their path and their mtime; the store is the    *)
(* sequence of its records in cursor order.                                *)
(***************************************************************************)
mt == part

MtimePaths == {"a", "b"}

StoredDocs == [path : MtimePaths, mtime : 0..MaxMtime]

\* a Map without an entry for the key: get returns undefined
Undefined == -1

\* getByPath: the mtimes of the records of the path
MtimesOf(docs, path) == {docs[k].mtime : k \in {j \in 1..Len(docs) : docs[j].path = path}}

MaxOf(S) == CHOOSE x \in S : \A y \in S : y <= x

\* needsReindex, part_009 lines 493-503
needsReindex(docs, file) ==
  IF MtimesOf(docs, file.path) = {} THEN TRUE
  ELSE file.mtime > MaxOf(MtimesOf(docs, file.path))

\* the cursor of getIndexedPathsWithMtime, part_009 lines 531-538, over the
\* records from position k on
RECURSIVE CursorFrom(_, _, _)
CursorFrom(docs, k, pathMtimes) ==
  IF k > Len(docs) THEN pathMtimes
  ELSE LET doc == docs[k]
           existingMtime == IF pathMtimes[doc.path] = Undefined THEN 0
                            ELSE pathMtimes[doc.path]
       IN  CursorFrom(docs, k + 1,
                      IF doc.mtime > existingMtime
                      THEN [pathMtimes EXCEPT ![doc.path] = doc.mtime]
                      ELSE pathMtimes)

\* getIndexedPathsWithMtime, part_009 lines 517-548
getIndexedPathsWithMtime(docs) == CursorFrom(docs, 1, [p \in MtimePaths |-> Undefined])

\* indexVault lines 236-237: !indexedMtime || file.stat.mtime > indexedMtime
\* !x of JavaScript for a number or undefined
Falsy(x) == x = Undefined \/ x = 0

Selected(indexedPaths, file) ==
  LET indexedMtime == indexedPaths[file.path] IN
  Falsy(indexedMtime) \/ file.mtime > indexedMtime

\* a boolean result next to "none", no result yet
Answer(b) == IF b THEN "yes" ELSE "no"

\* a call of needsReindex(file)
NeedsReindexReturns ==
  /\ mt.needs = "none"
  /\ part' = [mt EXCEPT !.needs = Answer(needsReindex(mt.docs, mt.file))]

\* the incremental filter of indexVault(false) reaches the file
FilterReachesFile ==
  /\ mt.selected = "none"
  /\ part' = [mt EXCEPT !.selected =
                      Answer(Selected(getIndexedPathsWithMtime(mt.docs), mt.file))]

InitMtime ==
  /\ isIndexing = FALSE
  /\ circuitBroken = FALSE
  /\ consecutiveErrors = 0
  /\ indexQueue = <<>>
  /\ progress = FALSE
  /\ timerPending = FALSE
  /\ runs = [r \in Runs |-> NoRun]
  /\ store = [p \in Files |-> 0]
  /\ tripped = FALSE
  /\ endpoints = [e \in EndpointIds |-> [enabled |-> FALSE, priority |-> 0]]
  /\ providers = {}
  /\ providerStatus = [e \in EndpointIds |-> "none"]
  /\ call = NoCall
  /\ vault = {}
  /\ config = [enabled |-> FALSE, requireConfirmation |-> FALSE]
  /\ pr = NoResponse
  /\ records = [c \in ChunkIndexes |-> NoRecord]
  /\ single = [d \in Singles |-> NoSingle]
  /\ nextVersion = 1
  /\ modal = NoModal
  /\ content = [p \in Files |-> 0]
  /\ rerun = NoRerun
  /\ pathRecords = [p \in Paths |-> {}]
  /\ upd = NoUpdate
  /\ writer = NoWriter
  /\ limiter = NoLimiter
  /\ embedCalls = [s \in Sites |-> NoEmbedCall]
  /\ srch = NoSearch
  /\ req = NoRequest
  /\ listing = NoListing
  /\ parse = NoParse
  /\ part \in {[docs |-> d, file |-> f, needs |-> "none", selected |-> "none"] :
                d \in SeqsUpTo(StoredDocs, MaxStored), f \in StoredDocs}

NextMtime ==
  \/ NeedsReindexReturns /\ UNCHANGED base
  \/ FilterReachesFile /\ UNCHANGED base

(***************************************************************************)
(* rename_note and move_note, ToolExecutor.ts lines 307-376: the paths     *)
(* they hand to the host's createFolder and renameFile.                    *)
(***************************************************************************)
mv == part

\* the call executed last: its tool, its result and the paths it handed to a
\* mutating call of the host
NoMove == [tool |-> "none", success |-> FALSE, message |-> "none", targets |-> {}]

ParentName == <<".", ".", "/", "b">>

MoveArguments ==
  [path : {StringArg(<<"a">>), StringArg(<<"b">>), StringArg(<<"c">>)},
   destinationFolder : {StringArg(EmptyFolder), StringArg(<<>>), StringArg(<<".", ".">>)},
   newName : {Absent, StringArg(<<"a">>), StringArg(<<"b">>), StringArg(<<"c">>),
              StringArg(ParentName)}]

\* a '..' segment of a path
HasParentSegment(path) ==
  \E k \in 1..(Len(path) - 1) :
    /\ path[k] = "." /\ path[k + 1] = "."
    /\ (k = 1 \/ path[k - 1] = "/")
    /\ (k + 1 = Len(path) \/ path[k + 2] = "/")

\* the path names a place under the vault root
InsideVault(path) == ~HasParentSegment(path) /\ ~startsWith(path, <<"/">>)

\* TFile.parent.path: the root folder has the path "/"
parentFolder(file) == IF parentPath(file) = <<>> THEN <<"/">> ELSE parentPath(file)

\* fileManager.renameFile(file, newPath) of the host: it refuses a path that
\* is taken, else the file is at newPath
renameFile(v, file, newPath, storeFails, done, targets) ==
  IF storeFails \/ getAbstractFileByPath(v, newPath) # "none"
  THEN [r |-> Failure("Error: store", TRUE), v |-> v, targets |-> targets \cup {newPath}]
  ELSE [r |-> Success(done),
        v |-> (v \ {[path |-> file, type |-> "file"]}) \cup {[path |-> newPath, type |-> "file"]},
        targets |-> targets \cup {newPath}]

\* renameNote, lines 354-376
renameNote(v, args, storeFails) ==
  LET file == findFile(v, args.path.s) IN
  IF file = NoFile THEN [r |-> Failure("not found", TRUE), v |-> v, targets |-> {}]
  ELSE LET newPath == parentFolder(file) \o <<"/">> \o args.newName.s \o mdExt
       IN  renameFile(v, file, normalizePath(newPath), storeFails, "Renamed", {})

\* moveNoteFile, lines 324-352
moveNoteFile(v, file, destinationFolder, newName, storeFails) ==
  LET create == getAbstractFileByPath(v, destinationFolder) = "none"
      made == IF create THEN v \cup {[path |-> destinationFolder, type |-> "folder"]} ELSE v
      targets == IF create THEN {destinationFolder} ELSE {}
      fileName == IF newName.t = "string" THEN newName.s \o mdExt ELSE LastSegment(file)
      newPath == normalizePath(destinationFolder \o <<"/">> \o fileName)
  IN IF create /\ storeFails
     THEN [r |-> Failure("Error: store", TRUE), v |-> v, targets |-> targets]
     ELSE IF getAbstractFileByPath(made, newPath) # "none" /\ newPath # file
     THEN [r |-> Failure("already exists", TRUE), v |-> made, targets |-> targets]
     ELSE renameFile(made, file, newPath, storeFails, "Moved", targets)

\* moveNote, lines 307-322; sanitizePath throws on the empty folder, whose
\* normalized path is "/"
moveNote(v, args, storeFails) ==
  LET p == sanitizePath(args.destinationFolder.s)
      file == findFile(v, args.path.s)
  IN IF ~p.ok THEN [r |-> Failure("Error: Invalid path", FALSE), v |-> v, targets |-> {}]
     ELSE IF file = NoFile THEN [r |-> Failure("not found", TRUE), v |-> v, targets |-> {}]
     ELSE moveNoteFile(v, file, p.path, args.newName, storeFails)

\* execute, lines 121-187, on a call of rename_note or move_note whose
\* arguments are an object of strings: newName is required by rename_note
ExecuteMove(tool, args, storeFails) ==
  LET out == IF tool = "rename_note" /\ args.newName.t = "absent"
             THEN [r |-> Failure("Missing required parameter", FALSE), v |-> vault,
                   targets |-> {}]
             ELSE IF tool = "rename_note" THEN renameNote(vault, args, storeFails)
             ELSE moveNote(vault, args, storeFails)
  IN /\ \A t \in out.targets : Len(t) <= MaxPath
     /\ vault' = out.v
     /\ part' = [tool |-> tool, success |-> out.r.success, message |-> out.r.message,
                 targets |-> out.targets]

InitMove ==
  /\ vault = {[path |-> NotesFolder, type |-> "folder"], [path |-> NoteFile, type |-> "file"],
              [path |-> EmptyFolder, type |-> "folder"]}
  /\ config = [enabled |-> TRUE, requireConfirmation |-> FALSE]
  /\ pr = NoResponse
  /\ isIndexing = FALSE
  /\ circuitBroken = FALSE
  /\ consecutiveErrors = 0
  /\ indexQueue = <<>>
  /\ progress = FALSE
  /\ timerPending = FALSE
  /\ runs = [r \in Runs |-> NoRun]
  /\ store = [p \in Files |-> 0]
  /\ tripped = FALSE
  /\ endpoints = [e \in EndpointIds |-> [enabled |-> FALSE, priority |-> 0]]
  /\ providers = {}
  /\ providerStatus = [e \in EndpointIds |-> "none"]
  /\ call = NoCall
  /\ records = [c \in ChunkIndexes |-> NoRecord]
  /\ single = [d \in Singles |-> NoSingle]
  /\ nextVersion = 1
  /\ modal = NoModal
  /\ content = [p \in Files |-> 0]
  /\ rerun = NoRerun
  /\ pathRecords = [p \in Paths |-> {}]
  /\ upd = NoUpdate
  /\ writer = NoWriter
  /\ limiter = NoLimiter
  /\ embedCalls = [s \in Sites |-> NoEmbedCall]
  /\ srch = NoSearch
  /\ req = NoRequest
  /\ listing = NoListing
  /\ parse = NoParse
  /\ part = NoMove

NextMove ==
  \/ \E tool \in {"rename_note", "move_note"}, args \in MoveArguments, storeFails \in BOOLEAN :
       ExecuteMove(tool, args, storeFails) /\ UNCHANGED <<config, pr, idxVars, gwVars, docVars, ext1Vars>>

(***************************************************************************)
(* ProviderManager.chatStream, ProviderManager.ts lines 204-243, over the   *)
(* chatStream of its providers: every provider gets the caller's sink.     *)
(***************************************************************************)
fo == part

\* the call: the provider tried (its place in getSortedProviders), what the
\* sink has received, the fullContent of the provider's call and the content
\* of the response returned
NoFailover ==
  [pc |-> "idle", k |-> 0, provider |-> "none", events |-> <<>>,
   fullContent |-> <<>>, response |-> <<>>]

\* a delta as the characters it adds to a string
DeltaChars(delta) == IF delta = "" THEN <<>> ELSE <<delta>>

RECURSIVE Delivered(_)
\* the concatenation of the contents the sink has received
Delivered(events) ==
  IF events = <<>> THEN <<>>
  ELSE DeltaChars(Head(events).content) \o Delivered(Tail(events))

\* line 222 for the provider at place k: its chatStream starts with an empty
\* fullContent (part_002 line 216, part_003 line 558) and the caller's sink
TryProvider(k, provider, streams) ==
  [fo EXCEPT !.pc = IF streams THEN "reading" ELSE "chat", !.k = k,
             !.provider = provider, !.fullContent = <<>>]

\* lines 208-222: the first provider of the sorted list is tried
ManagerChatStream(provider, streams) ==
  /\ fo.pc = "idle"
  /\ part' = TryProvider(1, provider, streams)

\* part_002 lines 235-255, part_003 lines 574-591: a line of the stream
StreamLineRead(line) ==
  /\ fo.pc = "reading"
  /\ Len(fo.events) < MaxSink
  /\ line \in StreamLines(fo.provider)
  /\ part' = [fo EXCEPT !.events = @ \o LineChunks(line),
                        !.fullContent = @ \o DeltaChars(line.content)]

\* part_002 lines 225-229 and 262-266, part_003 lines 565-569 and 599-602,
\* then line 223: the reader is done, the response carries fullContent
StreamReturns ==
  /\ fo.pc = "reading"
  /\ part' = [fo EXCEPT !.pc = "returned",
                        !.events = Append(@, [content |-> "", done |-> TRUE]),
                        !.response = fo.fullContent]

\* part_002 lines 172-174, part_003 lines 506-513: without a stream the
\* answer of chat goes to the sink in one chunk and is the response
ChatReturns(answer) ==
  /\ fo.pc = "chat"
  /\ part' = [fo EXCEPT !.pc = "returned",
                        !.events = Append(@, [content |-> answer, done |-> TRUE]),
                        !.response = DeltaChars(answer)]

\* lines 224-242: the provider threw (the read failed, the timeout aborted
\* it, chat failed); the next provider is tried, after the last the call
\* throws
ProviderThrows(provider, streams) ==
  /\ fo.pc \in {"reading", "chat"}
  /\ part' = IF fo.k < NumProviders
             THEN TryProvider(fo.k + 1, provider, streams)
             ELSE [fo EXCEPT !.pc = "thrown"]

InitFailover ==
  /\ isIndexing = FALSE
  /\ circuitBroken = FALSE
  /\ consecutiveErrors = 0
  /\ indexQueue = <<>>
  /\ progress = FALSE
  /\ timerPending = FALSE
  /\ runs = [r \in Runs |-> NoRun]
  /\ store = [p \in Files |-> 0]
  /\ tripped = FALSE
  /\ endpoints = [e \in EndpointIds |-> [enabled |-> FALSE, priority |-> 0]]
  /\ providers = {}
  /\ providerStatus = [e \in EndpointIds |-> "none"]
  /\ call = NoCall
  /\ vault = {}
  /\ config = [enabled |-> FALSE, requireConfirmation |-> FALSE]
  /\ pr = NoResponse
  /\ records = [c \in ChunkIndexes |-> NoRecord]
  /\ single = [d \in Singles |-> NoSingle]
  /\ nextVersion = 1
  /\ modal = NoModal
  /\ content = [p \in Files |-> 0]
  /\ rerun = NoRerun
  /\ pathRecords = [p \in Paths |-> {}]
  /\ upd = NoUpdate
  /\ writer = NoWriter
  /\ limiter = NoLimiter
  /\ embedCalls = [s \in Sites |-> NoEmbedCall]
  /\ srch = NoSearch
  /\ req = NoRequest
  /\ listing = NoListing
  /\ parse = NoParse
  /\ part = NoFailover

NextFailover ==
  \/ \E provider \in StreamProviders, streams \in BOOLEAN : ManagerChatStream(provider, streams) /\ UNCHANGED base
  \/ \E line \in [content : Deltas, done : BOOLEAN] : StreamLineRead(line) /\ UNCHANGED base
  \/ StreamReturns /\ UNCHANGED base
  \/ \E answer \in Deltas : ChatReturns(answer) /\ UNCHANGED base
  \/ \E provider \in StreamProviders, streams \in BOOLEAN : ProviderThrows(provider, streams) /\ UNCHANGED base

(***************************************************************************)
(* AutoTagger, autoTag.ts lines 269-566: the tag queue, its debounced       *)
(* processor and the circuit breaker of the processor.                     *)
(***************************************************************************)
tg == part

\* the paths that are queued; "d" names no file of the vault
TagPaths == {"a", "b", "c", "d"}
TagFiles == {"a", "b", "c"}

tagMaxConsecutiveErrors == 3

\* the tagger after its constructor, lines 276-283; failedInRow is the number
\* of provider chat calls that failed in a row since the last reset
NoTagger ==
  [enableAutoTag |-> TRUE, tagQueue |-> <<>>, timer |-> FALSE,
   isProcessing |-> FALSE, paths |-> <<>>, pc |-> "none",
   consecutiveErrors |-> 0, circuitBroken |-> FALSE, failedInRow |-> 0]

\* Set.add: a path already in the set keeps its place
AddPath(queue, path) ==
  IF \E k \in 1..Len(queue) : queue[k] = path THEN queue ELSE Append(queue, path)

RECURSIVE SkipMissing(_)
\* lines 505-506: paths that name no file are passed over
SkipMissing(paths) ==
  IF paths = <<>> \/ Head(paths) \in TagFiles THEN paths
  ELSE SkipMissing(Tail(paths))

\* lines 543-550: the finally of processTagQueue
TagFinally(t) ==
  [t EXCEPT !.isProcessing = FALSE, !.pc = "none", !.paths = <<>>,
            !.timer = @ \/ (t.tagQueue # <<>> /\ ~t.circuitBroken)]

\* lines 502-509: the top of the loop over t.paths, up to the await of the
\* yield for the first path that names a file
TagLoop(t) ==
  LET rest == SkipMissing(t.paths) IN
  IF t.circuitBroken \/ rest = <<>> THEN TagFinally(t)
  ELSE [t EXCEPT !.paths = rest, !.pc = "yield"]

\* the path in hand is done with, the loop goes on
TagNext(t) == TagLoop([t EXCEPT !.paths = Tail(@)])

\* lines 532-541: the catch of the loop body
TagCaught(t) ==
  LET n == t.consecutiveErrors + 1 IN
  IF n >= tagMaxConsecutiveErrors
  THEN TagFinally([t EXCEPT !.consecutiveErrors = n, !.circuitBroken = TRUE])
  ELSE TagNext([t EXCEPT !.consecutiveErrors = n])

\* queueFile, lines 305-311
tagQueueFile(path) ==
  part' = IF ~tg.enableAutoTag \/ tg.circuitBroken THEN tg
          ELSE [tg EXCEPT !.tagQueue = AddPath(@, path), !.timer = TRUE]

\* resetCircuitBreaker, lines 316-319
TagResetCircuitBreaker ==
  part' = [tg EXCEPT !.circuitBroken = FALSE, !.consecutiveErrors = 0,
                     !.failedInRow = 0]

\* updateSettings, lines 324-328
TagUpdateSettings(enableAutoTag) ==
  part' = [tg EXCEPT !.enableAutoTag = enableAutoTag, !.circuitBroken = FALSE,
                     !.consecutiveErrors = 0, !.failedInRow = 0]

\* the debounce timer of lines 297-299 fires: processTagQueue, lines 489-509
processTagQueue ==
  /\ tg.timer
  /\ part' = LET t == [tg EXCEPT !.timer = FALSE] IN
             IF t.isProcessing \/ t.tagQueue = <<>> THEN t
             ELSE IF t.circuitBroken THEN [t EXCEPT !.tagQueue = <<>>]
             ELSE TagLoop([t EXCEPT !.isProcessing = TRUE, !.paths = t.tagQueue,
                                    !.tagQueue = <<>>])

\* line 509 resolves, line 512 calls suggestTags: it reads the file and asks
\* the provider
YieldResolves ==
  /\ tg.pc = "yield"
  /\ part' = [tg EXCEPT !.pc = "suggest"]

\* suggestTags, lines 333-390, settles, and lines 512-541 follow.  readFails:
\* cachedRead of line 334 rejects, outside the try of line 344, so suggestTags
\* rejects.  chatFails: providerManager.chat rejects, the catch of lines
\* 386-389 returns [].  none: the answer holds no usable suggestion.  notice:
\* a Notice shows the suggestions.  apply: applyTags is awaited.
SuggestTagsSettles(outcome) ==
  /\ tg.pc = "suggest"
  /\ part' =
       LET failed == IF outcome = "chatFails"
                     THEN IF tg.failedInRow < tagMaxConsecutiveErrors
                          THEN tg.failedInRow + 1 ELSE tg.failedInRow
                     ELSE 0
           t == [tg EXCEPT !.failedInRow = failed]
       IN  IF outcome = "readFails" THEN TagCaught(t)
           ELSE IF outcome = "apply"
           THEN [t EXCEPT !.consecutiveErrors = 0, !.pc = "apply"]
           ELSE TagNext([t EXCEPT !.consecutiveErrors = 0])

\* applyTags, line 524, settles
ApplyTagsSettles(ok) ==
  /\ tg.pc = "apply"
  /\ part' = IF ok THEN TagNext(tg) ELSE TagCaught(tg)

InitTag ==
  /\ isIndexing = FALSE
  /\ circuitBroken = FALSE
  /\ consecutiveErrors = 0
  /\ indexQueue = <<>>
  /\ progress = FALSE
  /\ timerPending = FALSE
  /\ runs = [r \in Runs |-> NoRun]
  /\ store = [p \in Files |-> 0]
  /\ tripped = FALSE
  /\ endpoints = [e \in EndpointIds |-> [enabled |-> FALSE, priority |-> 0]]
  /\ providers = {}
  /\ providerStatus = [e \in EndpointIds |-> "none"]
  /\ call = NoCall
  /\ vault = {}
  /\ config = [enabled |-> FALSE, requireConfirmation |-> FALSE]
  /\ pr = NoResponse
  /\ records = [c \in ChunkIndexes |-> NoRecord]
  /\ single = [d \in Singles |-> NoSingle]
  /\ nextVersion = 1
  /\ modal = NoModal
  /\ content = [p \in Files |-> 0]
  /\ rerun = NoRerun
  /\ pathRecords = [p \in Paths |-> {}]
  /\ upd = NoUpdate
  /\ writer = NoWriter
  /\ limiter = NoLimiter
  /\ embedCalls = [s \in Sites |-> NoEmbedCall]
  /\ srch = NoSearch
  /\ req = NoRequest
  /\ listing = NoListing
  /\ parse = NoParse
  /\ part = NoTagger

NextTag ==
  \/ \E path \in TagPaths : tagQueueFile(path) /\ UNCHANGED base
  \/ TagResetCircuitBreaker /\ UNCHANGED base
  \/ \E enableAutoTag \in BOOLEAN : TagUpdateSettings(enableAutoTag) /\ UNCHANGED base
  \/ processTagQueue /\ UNCHANGED base
  \/ YieldResolves /\ UNCHANGED base
  \/ \E outcome \in {"readFails", "chatFails", "none", "notice", "apply"} : SuggestTagsSettles(outcome) /\ UNCHANGED base
  \/ \E ok \in BOOLEAN : ApplyTagsSettles(ok) /\ UNCHANGED base

(***************************************************************************)
(* The specifications: one subsystem runs, the others stay as constructed. *)
(***************************************************************************)
SpecIndex == InitIndex /\ [][NextIndex]_vars

SpecGateway == InitGateway /\ [][NextGateway]_vars

SpecTools == InitTools /\ [][NextTools]_vars

SpecDoc == InitDoc /\ [][NextDoc]_vars
SpecCap == InitCap /\ [][NextCap]_vars
\* a settled promise's continuation is a microtask the event loop always runs
SpecModal ==
  /\ InitModal /\ [][NextModal]_vars
  /\ WF_vars(AwaitReturns /\ UNCHANGED <<idxVars, gwVars, docVars, notUi>>)
SpecRerun == InitRerun /\ [][NextRerun]_vars
SpecRename == InitRename /\ [][NextRename]_vars
SpecRate == InitRate /\ [][NextRate]_vars
SpecSearch == InitSearch /\ [][NextSearch]_vars
SpecRequest == InitRequest /\ [][NextRequest]_vars
SpecList == InitList /\ [][NextList]_vars
SpecParse == InitParse /\ [][NextParse]_vars
SpecDisplay == InitDisplay /\ [][NextDisplay]_vars
SpecGuard == InitGuard /\ [][NextGuard]_vars
\* the event loop runs a timer that is due, and time passes
SpecAcquire ==
  /\ InitAcquire /\ [][NextAcquire]_vars
  /\ WF_vars(Tick /\ UNCHANGED base)
  /\ \A c \in Callers : WF_vars(TimerFires(c) /\ UNCHANGED base)
\* chunkSection is synchronous code: its loop goes on until it leaves it
SpecChunk ==
  /\ InitChunk /\ [][NextChunk]_vars
  /\ WF_vars(chunkText /\ UNCHANGED base)
  /\ WF_vars(Iterate /\ UNCHANGED base)
SpecStream == InitStream /\ [][NextStream]_vars
SpecRag == InitRag /\ [][NextRag]_vars
SpecMemory == InitMemory /\ [][NextMemory]_vars
\* the debounce timer fires, the loop of a run goes on, indexVault ends
SpecQueue ==
  /\ InitQueue /\ [][NextQueue]_vars
  /\ WF_vars(DebounceFires /\ UNCHANGED base)
  /\ WF_vars((\E outcome \in {"ok", "connection", "other"} : QueueRunStep(outcome))
                /\ UNCHANGED base)
  /\ WF_vars(IndexVaultEnds /\ UNCHANGED base)
SpecDelete == InitDelete /\ [][NextDelete]_vars
SpecHealth == InitHealth /\ [][NextHealth]_vars
SpecMtime == InitMtime /\ [][NextMtime]_vars
SpecMove == InitMove /\ [][NextMove]_vars
SpecFailover == InitFailover /\ [][NextFailover]_vars
SpecTag == InitTag /\ [][NextTag]_vars

(***************************************************************************)
(* Properties of the indexing orchestrator.                                *)
(***************************************************************************)
Processing(r) == Active(r) /\ runs[r].pc \in {"pre", "rate", "embed", "yield"}

\* run r sends an embedding request in this step
EmbedIssued(r) == Active(r) /\ runs[r].pc = "rate" /\ runs'[r].pc = "embed"

\* run r's loop starts a further iteration in this step
NextIteration(r) ==
  /\ Active(r) /\ runs[r].pc = "yield"
  /\ runs'[r].kind = runs[r].kind /\ runs'[r].pc = "pre"

\* C1: at most one indexing activation is in its document-processing section at
\* any time, whatever the interleaving of indexVault, processIndexQueue,
\* forceStop, resetCircuitBreaker and updateSettings.
C1_SingleRun == Cardinality({r \in Runs : Processing(r)}) <= 1

\* C2: from the moment three consecutive connection failures have opened the
\* circuit until it is explicitly reset, no embedding request is issued.
C2_NoEmbedWhileOpen == [][tripped => \A r \in Runs : ~EmbedIssued(r)]_vars

\* C3: once the abort flag has been raised during a run, that run's loop starts
\* no further document iteration, whatever calls follow.
C3_NoIterationAfterAbort ==
  [][\A r \in Runs : runs[r].aborted => ~NextIteration(r)]_vars

\* C7: a vault run is in its document-processing section only if its health
\* check found a healthy endpoint reporting the embedding model; a vault run
\* that leaves the health check otherwise ends with isIndexing false and the
\* store as it was.
C7_HealthGate ==
  /\ [](\A r \in Runs : (Processing(r) /\ runs[r].kind = "vault") => runs[r].healthyEmb)
  /\ [][\A r \in Runs :
          (runs[r].pc = "health" /\ runs'[r].pc # "health")
            => \/ runs'[r].pc = "pre" /\ runs'[r].healthyEmb /\ store' = store
               \/ runs'[r].kind = "none" /\ ~isIndexing' /\ store' = store]_vars

C7_Witness ==
  \E r \in Runs : runs[r].kind = "vault" /\ runs[r].pc = "embed" /\ runs[r].healthyEmb

(***************************************************************************)
(* Properties of the provider failover.                                    *)
(***************************************************************************)
CallStarts == call.phase = "idle" /\ call'.phase # "idle"

\* C5: a failover call attempts the enabled endpoints in ascending priority
\* order: the providers it reads at its start are exactly the enabled ones, in
\* ascending priority; it attempts them in that order, the next one only when
\* the one before has failed; after a success it attempts nothing more.
C5_PriorityOrder ==
  /\ [][CallStarts =>
          /\ \A k \in 1..Len(call'.list) : call'.list[k] \in EnabledIds
          /\ \A e \in EnabledIds \cap providers : InSeq(e, call'.list)
          /\ \A j, k \in 1..Len(call'.list) :
               j < k => /\ call'.list[j] # call'.list[k]
                        /\ endpoints[call'.list[j]].priority <= endpoints[call'.list[k]].priority]_vars
  /\ [](call.phase # "idle" =>
          /\ Len(call.attempts) <= Len(call.list)
          /\ call.attempts = SubSeq(call.list, 1, Len(call.attempts))
          /\ call.outcome = "ok" => call.response = call.attempts[Len(call.attempts)])
  /\ [][(call.phase = "waiting" /\ call'.attempts # call.attempts) =>
          /\ call'.attempts = Append(call.attempts, call.list[Len(call.attempts) + 1])
          /\ call'.lastError = call.attempts[Len(call.attempts)]]_vars
  /\ [][call.phase = "done" => (call' = NoCall \/ call'.attempts = call.attempts)]_vars

C5_Witness ==
  /\ call.phase = "done" /\ call.outcome = "ok"
  /\ Len(call.attempts) = 2 /\ call.attempts[1] > call.attempts[2]
  /\ \E e \in EndpointIds : ~endpoints[e].enabled

\* C6: with three enabled endpoints and no other writer of the statuses during
\* the call: when the first two fail and the third succeeds, the call returns
\* the third endpoint's response and the first two are marked unhealthy; when
\* all three fail, the call raises one aggregated error carrying the failure
\* of the last endpoint.
C6_ThreeEndpoints ==
  (call.phase = "done" /\ ~call.disturbed /\ Len(call.list) = 3 /\ Len(call.attempts) = 3) =>
    /\ call.outcome \in {"ok", "AllProvidersFailed"}
    /\ providerStatus[call.list[1]] = "unhealthy"
    /\ providerStatus[call.list[2]] = "unhealthy"
    /\ call.outcome = "ok" => call.response = call.list[3]
    /\ call.outcome = "AllProvidersFailed" =>
         /\ call.lastError = call.list[3]
         /\ providerStatus[call.list[3]] = "unhealthy"

C6_Witness ==
  /\ call.phase = "done" /\ ~call.disturbed /\ call.outcome = "ok"
  /\ Len(call.list) = 3 /\ call.response = call.list[3]

(***************************************************************************)
(* Properties of tool calling.                                             *)
(***************************************************************************)
\* the k-th parsed call carries one of the two escaping paths
EscapingPath(k) ==
  /\ pr.toolCalls[k].arguments.kind = "object"
  /\ pr.toolCalls[k].arguments.path \in {StringArg(TraversalPath), StringArg(AbsolutePath)}

Destructive(k) == pr.toolCalls[k].name \in {"delete_note", "delete_folder"}

\* C8: a tool executed with the path "../../etc/passwd" or "/etc/passwd" fails
\* with the path-safety error and performs no lookup or mutation of the vault.
C8_PathSafety ==
  \A k \in 1..Len(pr.toolResults) :
    (EscapingPath(k) /\ pr.toolResults[k].executed) =>
      /\ ~pr.toolResults[k].success
      /\ pr.toolResults[k].message = "Error: Invalid path"
      /\ ~pr.toolResults[k].touched

\* C9: where confirmation was required, delete_note and delete_folder are
\* executed only on the answer "confirm"; a cancelled or dismissed prompt gives
\* the failure result "Cancelled by user" without executing, and leaves the
\* vault as it was.
C9_Confirmation ==
  /\ [](\A k \in 1..Len(pr.toolResults) :
          (Destructive(k) /\ pr.toolResults[k].required) =>
            /\ pr.toolResults[k].answer # "none"
            /\ pr.toolResults[k].executed => pr.toolResults[k].answer = "confirm"
            /\ pr.toolResults[k].answer \in {"cancel", "dismiss"} =>
                 /\ ~pr.toolResults[k].executed
                 /\ ~pr.toolResults[k].success
                 /\ pr.toolResults[k].message = "Cancelled by user")
  /\ [][(/\ pr.phase = "confirm" /\ pr.i = Len(pr.toolCalls)
         /\ Len(pr'.toolResults) = pr.i
         /\ pr'.toolResults[pr.i].answer \in {"cancel", "dismiss"}) => vault' = vault]_vars

C9_Witness ==
  /\ pr.phase = "returned" /\ Len(pr.toolResults) = 2
  /\ Destructive(1) /\ pr.toolResults[1].required /\ pr.toolResults[1].answer = "dismiss"
  /\ Destructive(2) /\ pr.toolResults[2].required /\ pr.toolResults[2].answer = "confirm"
  /\ pr.toolResults[2].success

\* C10: execute never throws, so processResponse is never rejected and returns
\* one result for every call.
C10_NeverThrows ==
  /\ pr.phase # "rejected"
  /\ pr.phase = "returned" => Len(pr.toolResults) = Len(pr.toolCalls)

(***************************************************************************)
(* Properties of indexSingleFile.                                          *)
(***************************************************************************)
Completes(d) == single[d].pc = "upsert" /\ single'[d].pc = "done"

\* C4: when indexSingleFile completes successfully for a version with n > 0
\* chunks, the store holds exactly the records 0 .. n-1 of the path, each of
\* that version and with the embedding returned at its position in its batch.
C4_ExactRecords ==
  [][\A d \in Singles :
       Completes(d) =>
         \A c \in ChunkIndexes :
           IF c < single[d].n
           THEN records'[c] =
                  [version |-> single[d].version,
                   embedding |-> Embedding(single[d].version,
                                           c - (c % single[d].batchSize),
                                           c % single[d].batchSize)]
           ELSE records'[c] = NoRecord]_vars

(***************************************************************************)
(* Properties of the cap on tool calls.                                    *)
(***************************************************************************)
\* C11: from one response processResponse executes at most
\* maxToolCallsPerResponse calls, the first ones in parse order; the calls
\* beyond the cap are not executed and get no result.
C11_CallCap ==
  /\ Len(pr.toolCalls) <= maxToolCallsPerResponse
  /\ Len(pr.toolResults) <= Len(pr.toolCalls)
  /\ pr.phase # "idle" =>
       pr.toolCalls = SubSeq(pr.parsed, 1, Min(Len(pr.parsed), maxToolCallsPerResponse))
  /\ pr.phase = "returned" => Len(pr.toolResults) = Len(pr.toolCalls)
  /\ \A k \in 1..Len(pr.toolResults) :
       /\ pr.toolResults[k].executed <=> getToolByName(pr.parsed[k].name)
       /\ pr.toolResults[k].message = "Unknown tool" <=> pr.parsed[k].name = "bogus_tool"

C11_Witness ==
  /\ pr.phase = "returned"
  /\ Len(pr.parsed) = maxToolCallsPerResponse + 1
  /\ Len(pr.toolResults) = maxToolCallsPerResponse
  /\ pr.parsed[maxToolCallsPerResponse].name = "bogus_tool"
  /\ pr.parsed[maxToolCallsPerResponse + 1].name = "get_note_content"
  /\ ~pr.toolResults[maxToolCallsPerResponse].executed

(***************************************************************************)
(* Properties of the way indexVault ends.                                  *)
(***************************************************************************)
\* C16: indexVault always ends by returning normally: no continuation of a
\* run, whatever its await settles with, leaves indexVault by an exception.
C16_ReturnsNormally ==
  [][(\A r \in Runs, h \in HealthResults, storeOk \in BOOLEAN :
        HealthDone(r, h, storeOk) => ~HealthOut(r, h, storeOk).threw)
     /\ (\A r \in Runs : YieldDone(r) => ~YieldOut(r).threw)
     /\ (\A r \in Runs, res \in {"ok", "ReadError", "StoreError"}, n \in 0..MaxBatches :
           PreDone(r, res, n) => ~PreOut(r, res, n).threw)
     /\ (\A r \in Runs, out \in {"ok", "AllProvidersFailed", "NoProviders", "StoreError"} :
           EmbedDone(r, out) => ~EmbedOut(r, out).threw)]_vars

(***************************************************************************)
(* Properties of the confirmation prompt.                                  *)
(***************************************************************************)
\* C12: a confirmation request resolves exactly once, true on Confirm and
\* false on Cancel or a dismissal, and processResponse does not stay pending
\* once the prompt has closed.
C12_PromptResolves ==
  /\ [](modal.calls <= 1)
  /\ [](modal.state = "open" => (modal.calls = 0 /\ modal.value = "pending" /\ pr.phase = "confirm"))
  /\ [](modal.state \in {"closed", "resumed"} =>
         /\ modal.calls = 1
         /\ modal.event = "confirm" => modal.value = "true"
         /\ modal.event \in {"cancel", "dismiss"} => modal.value = "false"
         /\ modal.event # "none")
  /\ [](pr.phase = "confirm" <=> modal.state \in {"open", "closed", "resumed"})
  /\ (modal.state = "closed") ~> (modal.state # "closed")

C12_Witness ==
  /\ modal.state = "closed" /\ modal.event = "dismiss" /\ modal.value = "false"
  /\ pr.phase = "confirm" /\ pr.i = 2
  /\ pr.toolResults[1].answer = "confirm" /\ pr.toolResults[1].success

(***************************************************************************)
(* Properties of a repeated indexVault.                                    *)
(***************************************************************************)
\* C13: after a run that indexed every document successfully, with no
\* document modified since, indexVault(false) selects no document: the run
\* ends at its filter and the stored records stay as they are.
C13_RerunSelectsNothing ==
  [][\A r \in Runs, h \in HealthResults :
       (rerun.full /\ ~runs[r].force /\ GatePasses(h) /\ RerunHealth(r, h, TRUE))
         => (runs'[r] = NoRun /\ store' = store)]_vars

(***************************************************************************)
(* Properties of updatePath.                                               *)
(***************************************************************************)
\* C14: updatePath is atomic with respect to the other store operations, an
\* interleaved indexing write for either path included: in no state are there
\* records under both the old and the new path, and the rename's transaction
\* leaves the records under the new path, not under neither.
C14_UpdatePathAtomic ==
  /\ [](~(pathRecords["old"] # {} /\ pathRecords["new"] # {}))
  /\ [][(upd.pc = "transaction" /\ upd'.pc = "done") => pathRecords'["new"] # {}]_vars

(***************************************************************************)
(* Properties of the rate limiter.                                         *)
(***************************************************************************)
\* C15: every embedding request in flight at the gateway was preceded by
\* an acquire() on a token bucket, and all of them on the same one.
C15_EveryEmbedAcquires ==
  \A s, t \in Sites :
    (embedCalls[s].pc = "sent" /\ embedCalls[t].pc = "sent")
      => (embedCalls[s].acquired # 0 /\ embedCalls[s].acquired = embedCalls[t].acquired)

(***************************************************************************)
(* Properties of search.                                                   *)
(***************************************************************************)
\* C17: search(q, K, 0) over N records returns min(K, N) results, in
\* descending order of score, and they are the highest-scoring records: no
\* record left out scores more than one returned.
C17_SearchTopK ==
  srch.pc = "done" =>
    LET r == srch.results
        returned == {r[k].document : k \in DOMAIN r}
    IN  /\ ~srch.threw
        /\ Len(r) = Min(srch.topK, Len(srch.docs))
        /\ Cardinality(returned) = Len(r)
        /\ \A k \in DOMAIN r :
             r[k].score = cosineSimilarity(srch.queryEmbedding, srch.docs[r[k].document])
        /\ \A k \in 1..(Len(r) - 1) : r[k].score >= r[k + 1].score
        /\ \A k \in DOMAIN r, d \in DOMAIN srch.docs \ returned :
             cosineSimilarity(srch.queryEmbedding, srch.docs[d]) <= r[k].score

(***************************************************************************)
(* Properties of the request timeout.                                      *)
(***************************************************************************)
\* C18: when the configured timeout elapses before a chat or embed call has
\* responded, the error the provider raises has the code TIMEOUT.
C18_TimeoutCode ==
  (req.pc = "settled" /\ req.cause = "timeout") => req.code = "TIMEOUT"

(***************************************************************************)
(* Properties of listModels.                                               *)
(***************************************************************************)
\* C19: when every provider that listModels tried has failed, the call ends
\* by raising an error, not by returning a result.
C19_ListModelsRaises ==
  (listing.pc = "done" /\ listing.list # <<>> /\ listing.i > Len(listing.list))
    => listing.outcome = "threw"

(***************************************************************************)
(* Properties of parseToolCalls.                                           *)
(***************************************************************************)
\* C20: exact repeats are removed among the matches of one strategy only:
\* a call is returned once for every strategy that found it.
C20_DedupePerStrategy ==
  parse.pc = "done" =>
    \A c \in CallKeys :
      Cardinality({k \in DOMAIN parse.toolCalls : parse.toolCalls[k] = c})
        = Cardinality({s \in {"tool", "json", "inline"} :
                         \E k \in DOMAIN parse.response :
                           parse.response[k] = [strategy |-> s, call |-> c]})

(***************************************************************************)
(* Properties of the display content.                                      *)
(***************************************************************************)
\* C21: when parseToolCalls detects a tool invocation in the response, the
\* content processResponse returns for display is the text before the first
\* detected invocation.
C21_ContentBeforeFirstCall ==
  (disp.pc = "done" /\ disp.enabled /\ \E k \in DOMAIN disp.response : Detected(disp.response[k]))
    => LET first == CHOOSE k \in DOMAIN disp.response :
                      /\ Detected(disp.response[k])
                      /\ \A j \in 1..(k - 1) : ~Detected(disp.response[j])
       IN  disp.content = SubSeq(disp.response, 1, first - 1)

(***************************************************************************)
(* Properties of the guards of delete_folder and create_note.              *)
(***************************************************************************)
\* C22: a folder that has children goes away only by a call with force, the
\* content of a note that exists is replaced through create_note only with
\* overwrite, and a call refused for one of the two reasons is a failure
\* that leaves the vault and the contents as they were.
C22_GuardedWrites ==
  [][ /\ \A f \in {NotesFolder, EmptyFolder, <<"d">>} :
          (/\ [path |-> f, type |-> "folder"] \in vault
           /\ Under(vault, f) # {}
           /\ [path |-> f, type |-> "folder"] \notin vault')
            => (last'.tool = "delete_folder" /\ last'.force)
      /\ \A p \in NotePaths :
          (texts[p] # "none" /\ texts'[p] # texts[p] /\ last'.tool = "create_note")
            => last'.overwrite
      /\ (\/ last'.tool = "delete_folder" /\ last'.message = "not empty"
          \/ last'.tool = "create_note" /\ last'.message = "already exists")
            => (~last'.success /\ vault' = vault /\ texts' = texts)
      /\ (/\ last'.tool = "delete_folder" /\ ~last'.force
          /\ [path |-> last'.path, type |-> "folder"] \in vault
          /\ Under(vault, last'.path) # {})
            => last'.message = "not empty"
      /\ (/\ last'.tool = "create_note" /\ ~last'.overwrite
          /\ getAbstractFileByPath(vault, last'.path \o mdExt) # "none")
            => last'.message = "already exists"]_vars

\* a delete_folder without force was refused on the folder that holds a note,
\* and a note created before is still there
C22_Witness ==
  /\ last.tool = "delete_folder" /\ ~last.force /\ last.message = "not empty"
  /\ texts[NoteFile] # "none"
  /\ Under(vault, NotesFolder) # {}

(***************************************************************************)
(* Properties of RateLimiter.acquire.                                      *)
(***************************************************************************)
\* C23: a call of acquire completes: it returns at once with a token or it
\* resolves after a single wait of at most 2 seconds, with or without a token.
C23_AcquireCompletes ==
  /\ [](\A c \in Callers : callers[c].waited <= MaxWait)
  /\ \A c \in Callers : (callers[c].pc = "waiting") ~> (callers[c].pc = "resolved")

\* a call resolved after a wait of 2 seconds and the bucket has no token
C23_Witness ==
  \E c \in Callers :
    /\ callers[c].pc = "resolved"
    /\ callers[c].waited = MaxWait
    /\ bucket.tokens < Token

(***************************************************************************)
(* Properties of the chunker.                                              *)
(***************************************************************************)
\* C24: for every text and every chunkSize > overlap >= 0 the loop of
\* chunkSection ends, every pass of it moves startPos forward, and the next
\* start is the end of the chunk whenever endPos - overlap would not advance.
C24_LoopAdvances ==
  /\ [][(chunker.pc = "loop" /\ chunker.startPos < Len(chunker.text))
          => /\ chunker'.startPos > chunker.startPos
             /\ (chunker'.endPos - chunker.overlap <= chunker.startPos)
                  => chunker'.startPos = chunker'.endPos]_vars
  /\ <>(chunker.pc = "done")

\* the loop ended after a pass that continued from the end of its chunk
\* though the overlap is not 0
C24_Witness ==
  /\ chunker.pc = "done"
  /\ Len(chunker.chunks) > 1
  /\ chunker.overlap > 0
  /\ chunker.startPos = chunker.endPos

\* C25: the content of every chunk returned is at most chunkSize long, but
\* for a chunk that is one unit with no place to break it.
C25_ChunkWithinSize ==
  chunker.pc = "done" =>
    \A k \in 1..Len(chunker.chunks) :
      \/ Len(chunker.chunks[k].content) <= chunker.chunkSize
      \/ \A j \in 1..Len(chunker.chunks[k].content) : chunker.chunks[k].content[j] # " "

(***************************************************************************)
(* Properties of chatStream.                                               *)
(***************************************************************************)
\* C26: every chunk given to the sink with done = true has an empty content.
C26_DoneChunkEmpty ==
  \A k \in 1..Len(stream.events) :
    stream.events[k].done => stream.events[k].content = ""

\* C36: when chatStream has returned, the sink has received exactly one chunk
\* with done = true, and it is the last chunk.
C36_OneDoneLast ==
  stream.pc = "returned" =>
    /\ Cardinality({k \in 1..Len(stream.events) : stream.events[k].done}) = 1
    /\ stream.events[Len(stream.events)].done

\* C35: when the manager's chatStream has returned, the concatenation of the
\* contents the sink has received is the content of the response, also after
\* an earlier provider failed in the middle of its stream.
C35_DeltasEqualContent ==
  fo.pc = "returned" => Delivered(fo.events) = fo.response

C28_EvictsLeastRecentlyUsed ==
  \A k \in DOMAIN eviction.before :
    eviction.evicted.lastAccessedAt <= eviction.before[k].lastAccessedAt

(***************************************************************************)
(* Properties of the index queue.                                          *)
(***************************************************************************)
\* C29: a path the queue holds leaves it in the end, taken by a run or
\* dropped, with no further call of queueFile, also when it was queued while
\* an indexVault run was active.
C29_QueueDrains ==
  \A p \in QueuePaths :
    (p \in iq.indexQueue) ~> (p \notin iq.indexQueue)

(***************************************************************************)
(* Properties of the deletion of a document.                               *)
(***************************************************************************)
\* C30: once the document is deleted and neither the deleteByPath of the
\* handler nor an indexSingleFile of the document is in flight, the store
\* holds no record of its path.
C30_NoRecordAfterDelete ==
  (deleted /\ deleter.pc = "done" /\ indexer.pc \in {"idle", "done"}) => stored = {}


(***************************************************************************)
(* Further properties of the indexing orchestrator.                        *)
(***************************************************************************)
\* the current document of run r fails in this step with a message that is
\* not connection-classified
NonConnectionFailure(r) ==
  \/ \E res \in {"ReadError", "StoreError"} : PreDone(r, res, 0)
  \/ \E out \in {"NoProviders", "StoreError"} : EmbedDone(r, out)

\* C32: with the circuit closed, a failure of a vault run's document that is
\* not connection-classified is counted on the run's progress object, leaves
\* consecutiveErrors as it was, and the run goes on to its yield and from there
\* to the next document in scan order.
C32_NonConnectionContinues ==
  [][\A r \in Runs :
       /\ (runs[r].kind = "vault" /\ ~circuitBroken /\ NonConnectionFailure(r)) =>
            /\ progress
            /\ consecutiveErrors' = consecutiveErrors
            /\ runs'[r].pc = "yield" /\ runs'[r].i = runs[r].i
       /\ NextIteration(r) => runs'[r].i = runs[r].i + 1]_vars

\* C33: a progress object exists only while isIndexing is true.
C33_ProgressOnlyWhileIndexing == progress => isIndexing

\* a document with chunks has been indexed in this step: its records are put
DocumentIndexed == \E p \in Files : store[p] = 0 /\ store'[p] = 1

\* C40: consecutiveErrors >= maxConsecutiveErrors only with the circuit open,
\* and a successful document index sets consecutiveErrors to 0.
C40_CounterAndCircuit ==
  /\ [](consecutiveErrors >= maxConsecutiveErrors => circuitBroken)
  /\ [][DocumentIndexed => consecutiveErrors' = 0]_vars


(***************************************************************************)
(* Properties of the health gate.                                          *)
(***************************************************************************)
\* C37: whenever some healthy endpoint has the embedding model, the gate lets
\* indexing proceed, in whatever order the parallel checks complete.
C37_GateOrderIndependent ==
  (gate.outcome # "checking" /\ \E id \in HealthEndpoints : gate.kinds[id] = "ok")
    => gate.outcome = "proceeds"


(***************************************************************************)
(* Properties of the incremental filter.                                   *)
(***************************************************************************)
\* C38: for every file and every store, the filter of indexVault selects the
\* file exactly when needsReindex of the file is true.
C38_FilterIsNeedsReindex ==
  (mt.needs # "none" /\ mt.selected # "none") => mt.selected = mt.needs


(***************************************************************************)
(* Properties of rename_note and move_note.                                *)
(***************************************************************************)
\* C34: every path a tool call hands to a mutating call of the host is free
\* of '..' segments and lies under the vault root, the paths built from
\* newName included.
C34_TargetsInsideVault == \A t \in mv.targets : InsideVault(t)

(***************************************************************************)
(* Properties of the tagging processor.                                     *)
(***************************************************************************)
\* C39: when the provider chat call has failed for three files in a row,
\* the tagging circuit is open; and while the circuit stays open no call of
\* suggestTags begins, no path enters the queue and no processing is
\* scheduled.
C39_TagCircuitOpens ==
  /\ [](tg.failedInRow >= tagMaxConsecutiveErrors => tg.circuitBroken)
  /\ [][(tg.circuitBroken /\ tg'.circuitBroken) =>
          /\ ~(tg.pc # "suggest" /\ tg'.pc = "suggest")
          /\ \A k \in 1..Len(tg'.tagQueue) :
               \E j \in 1..Len(tg.tagQueue) : tg.tagQueue[j] = tg'.tagQueue[k]
          /\ tg'.timer => tg.timer]_vars

(***************************************************************************)
(* Properties of a failed indexSingleFile.                                  *)
(***************************************************************************)
\* an activation fails after its deleteByPath has succeeded: a stop is seen
\* at line 517, an embedding batch fails, or upsertBatch fails
FailsAfterDelete(d) ==
  /\ single'[d].pc = "failed"
  /\ \/ single[d].pc \in {"embed", "upsert"}
     \/ DeleteDone(d, TRUE, TRUE)

====
